---------------------------- MODULE Spec2Model ----------------------------
(***************************************************************************)
(* HyperWizard: the fixed-timestep game loop, the simulation step, the     *)
(* tile collision resolver, the renderer's adaptive quality controller,    *)
(* the keyboard handlers and the dev-overlay actions of                    *)
(* src/src/components/HyperWizard.tsx as one state machine.                *)
(*                                                                         *)
(* Numbers.  The program computes with IEEE doubles; the model computes    *)
(* with exact integers on grids on which every quantity the program        *)
(* produces with a step of 1/60 s is a whole number (all accelerations     *)
(* times 1/60 s are multiples of 1/6 px/s, all velocities times 1/60 s     *)
(* are multiples of 1/360 px):                                             *)
(*   length    1 px    = PX  units   (PX  = 6 * TARGET_FPS)                *)
(*   velocity  1 px/s  = VEL units   (VEL = 6)                             *)
(*   time (ms) 1 ms    = MS  units   (MS  = TARGET_FPS: 1000/60 ms = 1000) *)
(*   time (s)  1 s     = SECOND units (SECOND = 1000 * MS)                 *)
(* Rounding of doubles is not modelled.                                    *)
(***************************************************************************)
EXTENDS Integers, Sequences, FiniteSets, TLC

\* ------------------------------------------------------------------------
\* Units
\* ------------------------------------------------------------------------
TARGET_FPS == 60
MS == TARGET_FPS
SECOND == 1000 * MS
VEL == TARGET_FPS \div 10
PX == VEL * TARGET_FPS
\* FRAME_DURATION_MS = 1000 / TARGET_FPS milliseconds
FRAME_DURATION_MS == (1000 * MS) \div TARGET_FPS

\* x * 0.55, x * 1.35 ... : a decimal factor num/den applied to an integer
\* quantity that the grid keeps whole.
Frac(x, num, den) == (x * num) \div den

Min(a, b) == IF a < b THEN a ELSE b
Max(a, b) == IF a > b THEN a ELSE b
Abs(a) == IF a < 0 THEN -a ELSE a
Sign(a) == IF a > 0 THEN 1 ELSE IF a < 0 THEN -1 ELSE 0
\* Math.floor(a / b) for b > 0
FloorDiv(a, b) == a \div b
\* Math.ceil(a / b) for b > 0
CeilDiv(a, b) == -((-a) \div b)

clamp(value, min, max) ==
    IF value < min THEN min ELSE IF value > max THEN max ELSE value

\* ------------------------------------------------------------------------
\* Tiles and the level
\* ------------------------------------------------------------------------
T_EMPTY == 0
T_GROUND == 1
T_BLOCK == 2
T_SPIKE == 3
T_FLAG == 4

\* Variant: spikes count as solid
isSolidTileOrSpike(tile) == tile = T_GROUND \/ tile = T_BLOCK \/ tile = T_SPIKE

isSolidTile(tile) == tile = T_GROUND \/ tile = T_BLOCK

TRAIL_MAX == 20
STREAK_COUNT == 30

LevelRows == 16
LevelCols == 240
TileSizePx == 32

\* Variant: pits one column further right
IsPitShifted(x) == (x % 37 = 31 \/ x % 53 = 46) /\ x > 15 /\ x < LevelCols - 20

\* const pit = (x % 37 === 30 || x % 53 === 45) && x > 15 && x < cols - 20
IsPit(x) == (x % 37 = 30 \/ x % 53 = 45) /\ x > 15 /\ x < LevelCols - 20

\* The base ground loop: bottom row is ground outside pits, the row above it
\* is ground outside pits where x % 11 < 8.
BaseGround(r, c) ==
    IF r = LevelRows - 1 /\ ~IsPit(c) THEN T_GROUND
    ELSE IF r = LevelRows - 2 /\ ~IsPit(c) /\ (c % 11) < 8 THEN T_GROUND
    ELSE T_EMPTY

\* The eleven rectFill(r0, c0, r1, c1, T_BLOCK) calls: <<r0, c0, r1, c1>>
Platforms ==
    { <<10, 20, 10, 26>>, <<8, 33, 8, 36>>, <<11, 45, 11, 60>>,
      <<9, 65, 9, 70>>, <<7, 78, 7, 85>>, <<12, 96, 12, 110>>,
      <<9, 122, 9, 128>>, <<11, 140, 11, 155>>, <<8, 168, 8, 174>>,
      <<12, 185, 12, 200>>, <<10, 210, 10, 215>> }

InPlatform(r, c) ==
    \E p \in Platforms : r >= p[1] /\ r <= p[3] /\ c >= p[2] /\ c <= p[4]

\* The three spike runs on row rows - 2: <<first column, last column>>
SpikeRuns == { <<75, 78>>, <<132, 136>>, <<188, 190>> }

InSpikes(r, c) ==
    r = LevelRows - 2 /\ \E s \in SpikeRuns : c >= s[1] /\ c <= s[2]

FlagCol == LevelCols - 6
InFlag(r, c) ==
    c = FlagCol /\ r \in {LevelRows - 2, LevelRows - 3, LevelRows - 4}

\* createBaselineLevel(): the tile code it leaves in tiles[r][c].  The writes
\* in program order are ground, platforms, spikes, flag; a later write wins.
TileCode(r, c) ==
    IF InFlag(r, c) THEN T_FLAG
    ELSE IF InSpikes(r, c) THEN T_SPIKE
    ELSE IF InPlatform(r, c) THEN T_BLOCK
    ELSE BaseGround(r, c)

\* The level createBaselineLevel() returns.  tiles is not materialised: its
\* cells are read with Tiles(level, r, c).
createBaselineLevel ==
    [ tileSize |-> TileSizePx * PX, rows |-> LevelRows, cols |-> LevelCols ]

\* Tiles(level, r, c)
Tiles(level, r, c) == TileCode(r, c)

\* level.tiles.length and level.tiles[0].length
NumRows(level) == level.rows
NumCols(level) == level.cols


\* ------------------------------------------------------------------------
\* rectVsTiles: the collision resolver
\* ------------------------------------------------------------------------
\* Variant: a first tile that is not clamped to the grid
StartTileUnclamped(coord, tileSize) == FloorDiv(coord, tileSize)

\* The tile range the two for-loops visit, clamped to the grid.
StartTile(coord, tileSize) == Max(0, FloorDiv(coord, tileSize))
EndTile(coord, extent, tileSize, count) ==
    Min(count - 1, FloorDiv(coord + extent, tileSize))

\* The cells <<ty, tx>> that rectVsTiles reads.
ScannedCells(level, rectX, rectY, rectWidth, rectHeight) ==
    (StartTile(rectY, level.tileSize) ..
        EndTile(rectY, rectHeight, level.tileSize, NumRows(level)))
    \X
    (StartTile(rectX, level.tileSize) ..
        EndTile(rectX, rectWidth, level.tileSize, NumCols(level)))

\* overlapX / overlapY of the rectangle with tile column tx / tile row ty
OverlapX(level, tx, rectX, rectWidth) ==
    Min(rectX + rectWidth, tx * level.tileSize + level.tileSize)
        - Max(rectX, tx * level.tileSize)
OverlapY(level, ty, rectY, rectHeight) ==
    Min(rectY + rectHeight, ty * level.tileSize + level.tileSize)
        - Max(rectY, ty * level.tileSize)

\* The cells that pass `isSolidTile(...)` and `overlapX > 0 && overlapY > 0`.
HitCells(level, rectX, rectY, rectWidth, rectHeight) ==
    { cell \in ScannedCells(level, rectX, rectY, rectWidth, rectHeight) :
        /\ isSolidTile(Tiles(level, cell[1], cell[2]))
        /\ OverlapX(level, cell[2], rectX, rectWidth) > 0
        /\ OverlapY(level, cell[1], rectY, rectHeight) > 0 }

\* Variant: the hit resolves along the axis of the larger overlap
ResolvesAlongLargerOverlap(level, cell, rectX, rectY, rectWidth, rectHeight) ==
    OverlapX(level, cell[2], rectX, rectWidth)
        > OverlapY(level, cell[1], rectY, rectHeight)

\* `if (overlapX < overlapY)`: the hit resolves along X, else along Y.
ResolvesAlongX(level, cell, rectX, rectY, rectWidth, rectHeight) ==
    OverlapX(level, cell[2], rectX, rectWidth)
        < OverlapY(level, cell[1], rectY, rectHeight)

\* The loops run ty outermost, tx innermost, and every hit overwrites the
\* correction of its axis: the last hit in that order decides it.
LastCell(cells) ==
    CHOOSE cell \in cells : \A other \in cells :
        other[1] * LevelCols + other[2] <= cell[1] * LevelCols + cell[2]

\* rectX + rectWidth * 0.5 < tileLeft + tileSize * 0.5 ? -overlap : overlap
\* (both sides doubled to stay whole)
SignedCorrection(rectCoord, rectExtent, tileCoord, tileSize, overlap) ==
    IF 2 * rectCoord + rectExtent < 2 * tileCoord + tileSize
    THEN -overlap ELSE overlap

\* correctionX after the loops, hitsX being the hits that resolve along X
CorrectionX(level, rectX, rectWidth, hitsX) ==
    IF hitsX = {} THEN 0
    ELSE SignedCorrection(rectX, rectWidth,
             LastCell(hitsX)[2] * level.tileSize, level.tileSize,
             OverlapX(level, LastCell(hitsX)[2], rectX, rectWidth))

\* correctionY after the loops, hitsY being the hits that resolve along Y
CorrectionY(level, rectY, rectHeight, hitsY) ==
    IF hitsY = {} THEN 0
    ELSE SignedCorrection(rectY, rectHeight,
             LastCell(hitsY)[1] * level.tileSize, level.tileSize,
             OverlapY(level, LastCell(hitsY)[1], rectY, rectHeight))

\* The result of the loops given the set of hits
ResolveHits(level, rectX, rectY, rectWidth, rectHeight, hits) ==
    [ collided |-> hits # {},
      correctionX |->
          CorrectionX(level, rectX, rectWidth,
              { cell \in hits :
                  ResolvesAlongX(level, cell, rectX, rectY, rectWidth, rectHeight) }),
      correctionY |->
          CorrectionY(level, rectY, rectHeight,
              { cell \in hits :
                  ~ResolvesAlongX(level, cell, rectX, rectY, rectWidth, rectHeight) }) ]

rectVsTiles(level, rectX, rectY, rectWidth, rectHeight) ==
    ResolveHits(level, rectX, rectY, rectWidth, rectHeight,
                HitCells(level, rectX, rectY, rectWidth, rectHeight))

\* The cell tileAt(px, py) reads: none when the point is outside the grid
TileAtCells(level, px, py) ==
    IF \/ FloorDiv(px, level.tileSize) < 0
       \/ FloorDiv(px, level.tileSize) >= NumCols(level)
       \/ FloorDiv(py, level.tileSize) < 0
       \/ FloorDiv(py, level.tileSize) >= NumRows(level)
    THEN {}
    ELSE { << FloorDiv(py, level.tileSize), FloorDiv(px, level.tileSize) >> }

\* tileAt(px, py): the tile code at a world point, EMPTY outside the grid.
tileAt(level, px, py) ==
    IF \/ FloorDiv(px, level.tileSize) < 0
       \/ FloorDiv(px, level.tileSize) >= NumCols(level)
       \/ FloorDiv(py, level.tileSize) < 0
       \/ FloorDiv(py, level.tileSize) >= NumRows(level)
    THEN T_EMPTY
    ELSE Tiles(level, FloorDiv(py, level.tileSize), FloorDiv(px, level.tileSize))

\* ------------------------------------------------------------------------
\* stepSimulation(fixedDeltaSeconds)
\* ------------------------------------------------------------------------
\* A world is the simulation state the refs hold:
\*   [player, enemies, orbs, camera, trail, dead, won,
\*    flightMsgTimer, footstepTimer]
\* fixedDeltaSeconds is in SECOND units.  Each local of the function is the
\* parameter of the operator that models the code after its assignment.

physicsConstants ==
    [ gravity |-> 2200,                  \* px/s^2
      baseMoveSpeed |-> 240 * VEL,
      runMultiplierNum |-> 16,           \* runMultiplier: 1.6
      runMultiplierDen |-> 10,
      jumpBase |-> -640 * VEL,
      jumpRunBoost |-> -140 * VEL,
      maxFallSpeed |-> 1200 * VEL,
      groundAcceleration |-> 2600,       \* px/s^2
      airAcceleration |-> 1600 ]         \* px/s^2

\* acceleration (px/s^2) * seconds, in VEL units
AccelTimes(a, seconds) == (a * seconds * VEL) \div SECOND
\* velocity (VEL units) * seconds, in PX units
VelTimes(v, seconds) == (v * seconds * (PX \div VEL)) \div SECOND

\* Variant: a restart that also empties the trail
restartPlayerClearingTrail(w) ==
    [ w EXCEPT !.player.positionX = 64 * PX,
               !.player.positionY = 64 * PX,
               !.player.velocityX = 0,
               !.player.velocityY = 0,
               !.player.isOnGround = FALSE,
               !.camera = [x |-> 0, y |-> 0],
               !.trail = << >> ]

\* Variant: a restart that also brings every enemy back
restartPlayerReviving(w) ==
    [ w EXCEPT !.player.positionX = 64 * PX,
               !.player.positionY = 64 * PX,
               !.player.velocityX = 0,
               !.player.velocityY = 0,
               !.player.isOnGround = FALSE,
               !.camera = [x |-> 0, y |-> 0],
               !.enemies = [ n \in 1 .. Len(w.enemies) |->
                               [ w.enemies[n] EXCEPT !.alive = TRUE ] ] ]

restartPlayer(w) ==
    [ w EXCEPT !.player.positionX = 64 * PX,
               !.player.positionY = 64 * PX,
               !.player.velocityX = 0,
               !.player.velocityY = 0,
               !.player.isOnGround = FALSE,
               !.camera = [x |-> 0, y |-> 0] ]

\* Variant: a restart that resets the player and leaves the flags
StepRestartKeepingFlags(w, inputs) ==
    IF inputs.restart THEN restartPlayer(w) ELSE w

\* if (inputs.restart) { restartPlayer(); dead = false; won = false }
StepRestart(w, inputs) ==
    IF inputs.restart
    THEN [ restartPlayer(w) EXCEPT !.dead = FALSE, !.won = FALSE ]
    ELSE w

\* Variant: a freeze that looks at dead only
IsFrozenDeadOnly(w) == w.dead

\* if (deadRef.current || wonRef.current) return
IsFrozen(w) == w.dead \/ w.won

\* baseMoveSpeed * (running ? runMultiplier : 1)
BaseSpeed(inputs) ==
    IF inputs.run
    THEN Frac(physicsConstants.baseMoveSpeed,
              physicsConstants.runMultiplierNum, physicsConstants.runMultiplierDen)
    ELSE physicsConstants.baseMoveSpeed

TargetVX(inputs) ==
    (IF inputs.moveLeft THEN -BaseSpeed(inputs) ELSE 0)
        + (IF inputs.moveRight THEN BaseSpeed(inputs) ELSE 0)

\* accel * accelFactor * fixedDeltaSeconds, accelFactor being 1.35 when the
\* input reverses the direction of motion and 1 otherwise
AccelLimit(player, targetVX, fixedDeltaSeconds) ==
    AccelTimes(
        IF /\ Sign(targetVX) # Sign(player.velocityX)
           /\ Abs(targetVX) > 0
           /\ Abs(player.velocityX) > 0
        THEN Frac(IF player.isOnGround THEN physicsConstants.groundAcceleration
                  ELSE physicsConstants.airAcceleration, 135, 100)
        ELSE IF player.isOnGround THEN physicsConstants.groundAcceleration
             ELSE physicsConstants.airAcceleration,
        fixedDeltaSeconds)

\* player.velocityX += clamp(targetVX - velocityX, -limit, limit)
Accelerate(player, targetVX, limit) ==
    [ player EXCEPT !.velocityX =
        player.velocityX + clamp(targetVX - player.velocityX, -limit, limit) ]

\* Horizontal input with acceleration
HorizontalInput(player, inputs, fixedDeltaSeconds) ==
    Accelerate(player, TargetVX(inputs),
               AccelLimit(player, TargetVX(inputs), fixedDeltaSeconds))

\* Quick lift-off impulse when starting to fly from the ground
LiftOff(player) ==
    IF player.isOnGround
    THEN [ player EXCEPT !.velocityY = Min(player.velocityY, -420 * VEL),
                         !.isOnGround = FALSE ]
    ELSE player

\* player.velocityY += flightThrust * fixedDeltaSeconds
Thrust(player, fixedDeltaSeconds) ==
    [ player EXCEPT !.velocityY =
        player.velocityY + AccelTimes(-1650, fixedDeltaSeconds) ]

\* Variant: a jump that takes the run boost whether or not run is held
JumpOrFlightAlwaysBoosted(player, inputs, fixedDeltaSeconds) ==
    IF inputs.jump /\ player.canFly
    THEN [ player |-> Thrust(LiftOff(player), fixedDeltaSeconds),
           effectiveGravity |-> Frac(physicsConstants.gravity, 25, 100) ]
    ELSE IF inputs.jump /\ player.isOnGround
    THEN [ player |-> [ player EXCEPT
                          !.velocityY = physicsConstants.jumpBase
                              + physicsConstants.jumpRunBoost,
                          !.isOnGround = FALSE ],
           effectiveGravity |-> physicsConstants.gravity ]
    ELSE [ player |-> player, effectiveGravity |-> physicsConstants.gravity ]

\* Jump / Flight: the player after the jump branch, and effectiveGravity
JumpOrFlight(player, inputs, fixedDeltaSeconds) ==
    IF inputs.jump /\ player.canFly
    THEN [ player |-> Thrust(LiftOff(player), fixedDeltaSeconds),
           \* effectiveGravity *= 0.25
           effectiveGravity |-> Frac(physicsConstants.gravity, 25, 100) ]
    ELSE IF inputs.jump /\ player.isOnGround
    THEN [ player |-> [ player EXCEPT
                          !.velocityY = physicsConstants.jumpBase
                              + (IF inputs.run THEN physicsConstants.jumpRunBoost
                                 ELSE 0),
                          !.isOnGround = FALSE ],
           effectiveGravity |-> physicsConstants.gravity ]
    ELSE [ player |-> player, effectiveGravity |-> physicsConstants.gravity ]

\* velocityY += effectiveGravity * dt; clamp(velocityY, -Infinity, maxFallSpeed)
ApplyGravity(jumped, fixedDeltaSeconds) ==
    [ jumped.player EXCEPT !.velocityY =
        Min(jumped.player.velocityY
                + AccelTimes(jumped.effectiveGravity, fixedDeltaSeconds),
            physicsConstants.maxFallSpeed) ]

\* if (resultX.collided && resultX.correctionX !== 0) ... else ...
ResolveX(player, nextX, resultX) ==
    IF resultX.collided /\ resultX.correctionX # 0
    THEN [ player EXCEPT !.positionX = nextX + resultX.correctionX,
                         !.velocityX = 0 ]
    ELSE [ player EXCEPT !.positionX = nextX ]

MoveX(player, level, nextX) ==
    ResolveX(player, nextX,
             rectVsTiles(level, nextX, player.positionY, player.width, player.height))

\* Integrate and collide X axis
IntegrateX(player, level, fixedDeltaSeconds) ==
    MoveX(player, level,
          player.positionX + VelTimes(player.velocityX, fixedDeltaSeconds))

\* Variant: a Y resolution that keeps the speed
ResolveYKeepingSpeed(player, nextY, resultY) ==
    IF resultY.collided /\ resultY.correctionY # 0
    THEN [ player EXCEPT !.positionY = nextY + resultY.correctionY,
                         !.isOnGround =
                             IF resultY.correctionY < 0 THEN TRUE
                             ELSE player.isOnGround ]
    ELSE [ player EXCEPT !.positionY = nextY, !.isOnGround = FALSE ]

\* if (resultY.collided && resultY.correctionY !== 0) ... else ...
ResolveY(player, nextY, resultY) ==
    IF resultY.collided /\ resultY.correctionY # 0
    THEN [ player EXCEPT !.positionY = nextY + resultY.correctionY,
                         !.isOnGround =
                             IF resultY.correctionY < 0 THEN TRUE
                             ELSE player.isOnGround,
                         !.velocityY = 0 ]
    ELSE [ player EXCEPT !.positionY = nextY, !.isOnGround = FALSE ]

MoveY(player, level, nextY) ==
    ResolveY(player, nextY,
             rectVsTiles(level, player.positionX, nextY, player.width, player.height))

\* Integrate and collide Y axis
IntegrateY(player, level, fixedDeltaSeconds) ==
    MoveY(player, level,
          player.positionY + VelTimes(player.velocityY, fixedDeltaSeconds))

\* World bounds death: positionY > worldHeight + 200
FellOutOfWorld(player, level) ==
    player.positionY > NumRows(level) * level.tileSize + 200 * PX

\* Variant: a left boundary that keeps the speed
ClampLeftKeepingSpeed(player) ==
    IF player.positionX < 0
    THEN [ player EXCEPT !.positionX = 0 ]
    ELSE player

ClampLeft(player) ==
    IF player.positionX < 0
    THEN [ player EXCEPT !.positionX = 0, !.velocityX = 0 ]
    ELSE player

ClampRight(player, worldWidth) ==
    IF player.positionX > worldWidth - player.width
    THEN [ player EXCEPT !.positionX = worldWidth - player.width, !.velocityX = 0 ]
    ELSE player

ClampTop(player) ==
    IF player.positionY < 0
    THEN [ player EXCEPT !.positionY = 0, !.velocityY = 0 ]
    ELSE player

\* Invisible world boundaries (left / right / top)
ClampToWorld(player, level) ==
    ClampTop(ClampRight(ClampLeft(player), NumCols(level) * level.tileSize))

\* Variant: the column of the player's left edge
MidColLeftEdge(player, level) ==
    FloorDiv(player.positionX, level.tileSize)

\* Spike check near feet
FeetRow(player, level) ==
    FloorDiv(player.positionY + player.height - 1 * PX, level.tileSize)
MidCol(player, level) ==
    FloorDiv(player.positionX + player.width \div 2, level.tileSize)

\* The cells the spike check reads, given feetRow and midCol
SpikeCellsAt(level, feetRow, midCol) ==
    IF feetRow >= 0 /\ feetRow < NumRows(level)
       /\ midCol >= 0 /\ midCol < NumCols(level)
    THEN IF Tiles(level, feetRow, midCol) # T_SPIKE /\ feetRow - 1 >= 0
         THEN { <<feetRow, midCol>>, <<feetRow - 1, midCol>> }
         ELSE { <<feetRow, midCol>> }
    ELSE {}

SpikeCells(player, level) ==
    SpikeCellsAt(level, FeetRow(player, level), MidCol(player, level))

SpikeHere(player, level) ==
    \E cell \in SpikeCells(player, level) :
        Tiles(level, cell[1], cell[2]) = T_SPIKE

\* Variant: a pickup test that takes the boundary too
WithinReachInclusive(dx, dy, reach) ==
    /\ Abs(dx) <= reach
    /\ Abs(dy) <= reach
    /\ dx * dx + dy * dy <= reach * reach

\* dx * dx + dy * dy < reach * reach.  Outside the box |dx|, |dy| <= reach the
\* comparison is false; inside it the squares stay small.
WithinReach(dx, dy, reach) ==
    /\ Abs(dx) <= reach
    /\ Abs(dy) <= reach
    /\ dx * dx + dy * dy < reach * reach

OrbInReach(player, orb) ==
    WithinReach(player.positionX + player.width \div 2 - orb.x,
                player.positionY + player.height \div 2 - orb.y,
                orb.radius + 12 * PX)

\* Orbs collection
CollectOrbs(orbs, player) ==
    [ i \in 1 .. Len(orbs) |->
        IF ~orbs[i].collected /\ OrbInReach(player, orbs[i])
        THEN [ orbs[i] EXCEPT !.collected = TRUE ]
        ELSE orbs[i] ]

\* Variant: a skip that looks at the right edge of the view only
IsCulledRightOnly(e, cameraX, viewportWidth) ==
    e.x > (cameraX + viewportWidth) * PX + 128 * PX

\* if (e.x + e.width < vxLeft - 128 || e.x > vxRight + 128) continue
IsCulled(e, cameraX, viewportWidth) ==
    \/ e.x + e.width < cameraX * PX - 128 * PX
    \/ e.x > (cameraX + viewportWidth) * PX + 128 * PX

\* e.phase += dt * 2; e.velocityY = clamp(velocityY + gravity * dt, -9999, maxFall)
EnemyGravity(e, fixedDeltaSeconds) ==
    [ e EXCEPT !.phase = e.phase + fixedDeltaSeconds * 2,
               !.velocityY =
                   clamp(e.velocityY
                             + AccelTimes(physicsConstants.gravity, fixedDeltaSeconds),
                         -9999 * VEL, physicsConstants.maxFallSpeed) ]

\* Move X with collisions: a hit reverses velocityX
EnemyResolveX(e, exNext, exCol) ==
    IF exCol.collided /\ exCol.correctionX # 0
    THEN [ e EXCEPT !.x = exNext + exCol.correctionX, !.velocityX = -e.velocityX ]
    ELSE [ e EXCEPT !.x = exNext ]

EnemyMoveX(e, level, exNext) ==
    EnemyResolveX(e, exNext, rectVsTiles(level, exNext, e.y, e.width, e.height))

\* Move Y with collisions: a hit zeroes velocityY
EnemyResolveY(e, eyNext, eyCol) ==
    IF eyCol.collided /\ eyCol.correctionY # 0
    THEN [ e EXCEPT !.y = eyNext + eyCol.correctionY, !.velocityY = 0 ]
    ELSE [ e EXCEPT !.y = eyNext ]

EnemyMoveY(e, level, eyNext) ==
    EnemyResolveY(e, eyNext, rectVsTiles(level, e.x, eyNext, e.width, e.height))

\* Variant: the sample taken beyond the trailing edge
TileAheadTrailing(e, level) ==
    tileAt(level,
           e.x + (IF e.velocityX > 0 THEN -1 * PX ELSE e.width + 1 * PX),
           e.y + e.height + 1 * PX)

\* Edge detection ahead: the tile one unit beyond the leading edge, one unit
\* below the feet
TileAhead(e, level) ==
    tileAt(level,
           e.x + (IF e.velocityX > 0 THEN e.width + 1 * PX ELSE -1 * PX),
           e.y + e.height + 1 * PX)

\* Variant: an edge detection that never turns the enemy
EdgeFlipNever(e, level) == e

EdgeFlip(e, level) ==
    IF ~isSolidTile(TileAhead(e, level))
    THEN [ e EXCEPT !.velocityX = -e.velocityX ]
    ELSE e

EnemyStepX(e, level, fixedDeltaSeconds) ==
    EnemyMoveX(e, level, e.x + VelTimes(e.velocityX, fixedDeltaSeconds))
EnemyStepY(e, level, fixedDeltaSeconds) ==
    EnemyMoveY(e, level, e.y + VelTimes(e.velocityY, fixedDeltaSeconds))

\* One simulated enemy: phase, gravity, X pass, Y pass, edge detection
MoveEnemy(e, level, fixedDeltaSeconds) ==
    EdgeFlip(
        EnemyStepY(
            EnemyStepX(EnemyGravity(e, fixedDeltaSeconds), level, fixedDeltaSeconds),
            level, fixedDeltaSeconds),
        level)

\* Player vs enemy: the AABB test
Overlaps(player, e) ==
    /\ player.positionX < e.x + e.width
    /\ player.positionX + player.width > e.x
    /\ player.positionY < e.y + e.height
    /\ player.positionY + player.height > e.y

\* playerBottomPrev = positionY - velocityY * dt + height
PlayerBottomPrev(player, fixedDeltaSeconds) ==
    player.positionY - VelTimes(player.velocityY, fixedDeltaSeconds) + player.height

\* Variant: a stomp test that looks at the fall speed only
IsStompFallingOnly(player, e, fixedDeltaSeconds) ==
    player.velocityY > 50 * VEL

\* player.velocityY > 50 && playerBottomPrev <= enemyTop + 6
IsStomp(player, e, fixedDeltaSeconds) ==
    /\ player.velocityY > 50 * VEL
    /\ PlayerBottomPrev(player, fixedDeltaSeconds) <= e.y + 6 * PX

\* Variant: a stomp that bounces with the full jump velocity
StompBounceFull == physicsConstants.jumpBase

\* physicsConstants.jumpBase * 0.55
StompBounce == Frac(physicsConstants.jumpBase, 55, 100)

\* `if (overlap) { stomp ... } else { dead ... }` for the moved enemy i, on
\* acc = [enemies, player, dead]
PlayerVsEnemy(acc, i, moved, fixedDeltaSeconds) ==
    IF ~Overlaps(acc.player, moved)
    THEN [ acc EXCEPT !.enemies[i] = moved ]
    ELSE IF IsStomp(acc.player, moved, fixedDeltaSeconds)
    THEN [ acc EXCEPT !.enemies[i] = [ moved EXCEPT !.alive = FALSE ],
                      !.player.velocityY = StompBounce ]
    ELSE [ acc EXCEPT !.enemies[i] = moved, !.dead = TRUE ]

\* The body of the enemy loop for enemy i
EnemyIteration(acc, i, level, cameraX, viewportWidth, fixedDeltaSeconds) ==
    IF ~acc.enemies[i].alive \/ IsCulled(acc.enemies[i], cameraX, viewportWidth)
    THEN acc
    ELSE PlayerVsEnemy(acc, i, MoveEnemy(acc.enemies[i], level, fixedDeltaSeconds),
                       fixedDeltaSeconds)

RECURSIVE EnemiesLoop(_, _, _, _, _, _)
EnemiesLoop(acc, i, level, cameraX, viewportWidth, fixedDeltaSeconds) ==
    IF i > Len(acc.enemies) THEN acc
    ELSE EnemiesLoop(
             EnemyIteration(acc, i, level, cameraX, viewportWidth, fixedDeltaSeconds),
             i + 1, level, cameraX, viewportWidth, fixedDeltaSeconds)

\* Variant: an unlock that does not look at canFly
UnlocksFlightWheneverCleared(player, enemies) ==
    ~(\E i \in 1 .. Len(enemies) : enemies[i].alive)

\* Flight unlock: when all enemies are defeated
UnlocksFlight(player, enemies) ==
    ~player.canFly /\ ~(\E i \in 1 .. Len(enemies) : enemies[i].alive)

FLIGHT_MSG_SECONDS == 2

\* if (!player.canFly && !anyAlive) { canFly = true; flightMsgTimer = 2 }
\* on acc = [enemies, player, dead], giving [player, flightMsgTimer]
FlightUnlock(acc, timer) ==
    IF UnlocksFlight(acc.player, acc.enemies)
    THEN [ player |-> [ acc.player EXCEPT !.canFly = TRUE ],
           flightMsgTimer |-> FLIGHT_MSG_SECONDS * SECOND ]
    ELSE [ player |-> acc.player, flightMsgTimer |-> timer ]

\* Tick flight message timer
TickFlightTimer(timer, fixedDeltaSeconds) ==
    IF timer > 0 THEN Max(0, timer - fixedDeltaSeconds) ELSE timer

\* Win detection by touching flag
FlagAt(level, playerTileR, playerTileC) ==
    /\ playerTileR >= 0 /\ playerTileR < NumRows(level)
    /\ playerTileC >= 0 /\ playerTileC < NumCols(level)
    /\ Tiles(level, playerTileR, playerTileC) = T_FLAG

\* The cell the win check reads: the && chain stops at the first range test
\* that fails
FlagCells(player, level) ==
    IF /\ FloorDiv(player.positionY + player.height \div 2, level.tileSize) >= 0
       /\ FloorDiv(player.positionY + player.height \div 2, level.tileSize) < NumRows(level)
       /\ FloorDiv(player.positionX + player.width \div 2, level.tileSize) >= 0
       /\ FloorDiv(player.positionX + player.width \div 2, level.tileSize) < NumCols(level)
    THEN { << FloorDiv(player.positionY + player.height \div 2, level.tileSize),
              FloorDiv(player.positionX + player.width \div 2, level.tileSize) >> }
    ELSE {}

\* Variant: a win check at the player's top-left corner
TouchesFlagCorner(player, level) ==
    FlagAt(level,
           FloorDiv(player.positionY, level.tileSize),
           FloorDiv(player.positionX, level.tileSize))

TouchesFlag(player, level) ==
    FlagAt(level,
           FloorDiv(player.positionY + player.height \div 2, level.tileSize),
           FloorDiv(player.positionX + player.width \div 2, level.tileSize))

\* topSpeed = baseMoveSpeed * runMultiplier
TopSpeed ==
    Frac(physicsConstants.baseMoveSpeed,
         physicsConstants.runMultiplierNum, physicsConstants.runMultiplierDen)

\* topSpeed * speedRatio: 0 under 20 px/s, else velocityX clamped to +-topSpeed
LeadSpeed(player) ==
    IF Abs(player.velocityX) < 20 * VEL THEN 0
    ELSE clamp(player.velocityX, -TopSpeed, TopSpeed)

\* 4 * PX * desiredCamX, desiredCamX = positionX - viewportWidth / 2
\*                                      + maxLead * speedRatio, maxLead = 120
DesiredCamX4(player, viewport) ==
    4 * player.positionX - 2 * PX * viewport.width
        + (4 * PX * 120 * LeadSpeed(player)) \div TopSpeed

\* Variant: a camera without the clamp at 0
FollowCameraUnclamped(camera, player, viewport) ==
    [ x |-> FloorDiv(17 * 4 * PX * camera.x + 3 * DesiredCamX4(player, viewport),
                     20 * 4 * PX),
      y |-> FloorDiv(2 * player.positionY - PX * viewport.height, 2 * PX) ]

\* Variant: a camera that closes a quarter of the gap per step
FollowCameraQuarter(camera, player, viewport) ==
    [ x |-> Max(0, FloorDiv(3 * 4 * PX * camera.x + DesiredCamX4(player, viewport),
                            4 * 4 * PX)),
      y |-> Max(0, FloorDiv(2 * player.positionY - PX * viewport.height, 2 * PX)) ]

\* Camera follows player with velocity-based lead.
\* smoothedX = camera.x + (desiredCamX - camera.x) * 0.15
\*           = (17 * camera.x + 3 * desiredCamX) / 20
FollowCamera(camera, player, viewport) ==
    [ x |-> Max(0, FloorDiv(17 * 4 * PX * camera.x
                                + 3 * DesiredCamX4(player, viewport),
                            20 * 4 * PX)),
      y |-> Max(0, FloorDiv(2 * player.positionY - PX * viewport.height, 2 * PX)) ]

\* if (trail.length > TRAIL_MAX) trail.shift()
ShiftTrail(pushed) == IF Len(pushed) > TRAIL_MAX THEN Tail(pushed) ELSE pushed

\* Variant: a push that never drops an entry
PushTrailUncapped(trail, player) ==
    Append(trail, [x |-> player.positionX, y |-> player.positionY])

\* trail.push({ x, y }) and the cap
PushTrail(trail, player) ==
    ShiftTrail(Append(trail, [x |-> player.positionX, y |-> player.positionY]))

\* Footstep SFX cadence: 0.18 s running, 0.24 s walking
StepInterval(inputs) ==
    IF inputs.run THEN Frac(SECOND, 18, 100) ELSE Frac(SECOND, 24, 100)

Footstep(timer, player, inputs, fixedDeltaSeconds) ==
    IF player.isOnGround /\ Abs(player.velocityX) > 40 * VEL
    THEN IF timer + fixedDeltaSeconds >= StepInterval(inputs) THEN 0
         ELSE timer + fixedDeltaSeconds
    ELSE 0

\* The player after input, gravity and the two collision passes
MovePlayer(player, inputs, level, fixedDeltaSeconds) ==
    IntegrateY(
        IntegrateX(
            ApplyGravity(
                JumpOrFlight(HorizontalInput(player, inputs, fixedDeltaSeconds),
                             inputs, fixedDeltaSeconds),
                fixedDeltaSeconds),
            level, fixedDeltaSeconds),
        level, fixedDeltaSeconds)

\* Variant: a step that leaves the player dead also marks it won
FinishStepWonOnDeath(w, inputs, level, viewport, fixedDeltaSeconds, orbs1, acc, unlocked) ==
    [ player |-> unlocked.player,
      enemies |-> acc.enemies,
      orbs |-> orbs1,
      camera |-> FollowCamera(w.camera, unlocked.player, viewport),
      trail |-> PushTrail(w.trail, unlocked.player),
      dead |-> acc.dead,
      won |-> w.won \/ TouchesFlag(unlocked.player, level) \/ acc.dead,
      flightMsgTimer |-> TickFlightTimer(unlocked.flightMsgTimer, fixedDeltaSeconds),
      footstepTimer |->
          Footstep(w.footstepTimer, unlocked.player, inputs, fixedDeltaSeconds) ]

\* From the flight unlock to the end of the step; acc = [enemies, player,
\* dead] after the enemy loop, unlocked = [player, flightMsgTimer]
FinishStep(w, inputs, level, viewport, fixedDeltaSeconds, orbs1, acc, unlocked) ==
    [ player |-> unlocked.player,
      enemies |-> acc.enemies,
      orbs |-> orbs1,
      camera |-> FollowCamera(w.camera, unlocked.player, viewport),
      trail |-> PushTrail(w.trail, unlocked.player),
      dead |-> acc.dead,
      won |-> w.won \/ TouchesFlag(unlocked.player, level),
      flightMsgTimer |-> TickFlightTimer(unlocked.flightMsgTimer, fixedDeltaSeconds),
      footstepTimer |->
          Footstep(w.footstepTimer, unlocked.player, inputs, fixedDeltaSeconds) ]

\* From the flight unlock on, given the result of the enemy loop
AfterEnemies(w, inputs, level, viewport, fixedDeltaSeconds, orbs1, acc) ==
    FinishStep(w, inputs, level, viewport, fixedDeltaSeconds, orbs1, acc,
               FlightUnlock(acc, w.flightMsgTimer))

\* Spike check, orbs and enemy loop; clamped is the player after the world
\* bounds, dead1 the dead flag after the fall check
AfterBounds(w, inputs, level, viewport, fixedDeltaSeconds, clamped, dead1) ==
    AfterEnemies(w, inputs, level, viewport, fixedDeltaSeconds,
        CollectOrbs(w.orbs, clamped),
        EnemiesLoop([ enemies |-> w.enemies,
                      player |-> clamped,
                      dead |-> dead1 \/ SpikeHere(clamped, level) ],
                    1, level, w.camera.x, viewport.width, fixedDeltaSeconds))

\* World bounds; moved is the player after the two collision passes
AfterMove(w, inputs, level, viewport, fixedDeltaSeconds, moved) ==
    AfterBounds(w, inputs, level, viewport, fixedDeltaSeconds,
                ClampToWorld(moved, level),
                w.dead \/ FellOutOfWorld(moved, level))

\* The part of stepSimulation after the freeze check
ProcessStep(w, inputs, level, viewport, fixedDeltaSeconds) ==
    AfterMove(w, inputs, level, viewport, fixedDeltaSeconds,
              MovePlayer(w.player, inputs, level, fixedDeltaSeconds))

\* stepSimulation after the restart block
FreezeOrProcess(w, inputs, level, viewport, fixedDeltaSeconds) ==
    IF IsFrozen(w) THEN w
    ELSE ProcessStep(w, inputs, level, viewport, fixedDeltaSeconds)

\* stepSimulation(fixedDeltaSeconds)
stepSimulation(w, inputs, level, viewport, fixedDeltaSeconds) ==
    FreezeOrProcess(StepRestart(w, inputs), inputs, level, viewport,
                    fixedDeltaSeconds)

\* ------------------------------------------------------------------------
\* Session construction (the effect body of the HyperWizard component)
\* ------------------------------------------------------------------------
InitialPlayer ==
    [ positionX |-> 64 * PX, positionY |-> 64 * PX,
      velocityX |-> 0, velocityY |-> 0,
      width |-> 20 * PX, height |-> 28 * PX,
      isOnGround |-> FALSE, canFly |-> FALSE ]

\* The addOrb loops: <<first column, last column, column step, py>>
OrbRuns ==
    << <<24, 26, 1, 9 * 32 + 12>>, <<46, 58, 2, 10 * 32 - 16>>,
       <<66, 70, 1, 8 * 32 - 8>>, <<78, 85, 1, 7 * 32 - 12>>,
       <<122, 128, 1, 8 * 32 - 16>>, <<140, 155, 3, 10 * 32 - 20>>,
       <<168, 174, 1, 7 * 32 - 16>>, <<185, 200, 2, 12 * 32 - 20>> >>

\* addOrb(x * 32 + 16, py) for the columns of one run
OrbsOfRun(run) ==
    [ k \in 1 .. ((run[2] - run[1]) \div run[3] + 1) |->
        [ x |-> ((run[1] + (k - 1) * run[3]) * 32 + 16) * PX,
          y |-> run[4] * PX,
          radius |-> 10 * PX,
          collected |-> FALSE ] ]

RECURSIVE PlacedOrbs(_)
PlacedOrbs(n) ==
    IF n = 0 THEN << >> ELSE PlacedOrbs(n - 1) \o OrbsOfRun(OrbRuns[n])

\* The first row at or below startRow in column col that is solid with a
\* non-solid tile above it; LevelRows when there is none.
RECURSIVE SurfaceRow(_, _, _)
SurfaceRow(level, col, r) ==
    IF r >= NumRows(level) THEN NumRows(level)
    ELSE IF isSolidTile(Tiles(level, r, col))
            /\ (r = 0 \/ ~isSolidTile(Tiles(level, r - 1, col)))
         THEN r
         ELSE SurfaceRow(level, col, r + 1)

\* orb.y = surfaceTopY - player.height / 2 when a surface was found
SnapTo(orb, level, player, surface) ==
    IF surface < NumRows(level)
    THEN [ orb EXCEPT !.y = surface * level.tileSize - player.height \div 2 ]
    ELSE orb

\* Snap an orb to half the player's height above the surface beneath it.
SnapOrb(orb, level, player) ==
    SnapTo(orb, level, player,
           SurfaceRow(level,
                      Max(0, Min(NumCols(level) - 1, FloorDiv(orb.x, level.tileSize))),
                      Max(0, Min(NumRows(level) - 1, FloorDiv(orb.y, level.tileSize)))))

SnapAll(placed, level, player) ==
    [ i \in 1 .. Len(placed) |-> SnapOrb(placed[i], level, player) ]

InitialOrbs == SnapAll(PlacedOrbs(Len(OrbRuns)), createBaselineLevel, InitialPlayer)

\* The spawnEnemy calls: <<tileCol, tileRow, type>>
EnemySpawns ==
    << <<52, LevelRows - 2, "TRICK">>, <<88, LevelRows - 2, "HYPER">>,
       <<107, 12, "TRICK">>, <<147, 10, "HYPER">>,
       <<172, LevelRows - 2, "TRICK">>, <<196, 12, "HYPER">> >>

\* spawnEnemy(tileCol, tileRow, type); direction is the sign Math.random()
\* picked (-1 or 1).  phase is kept relative to the random initial phase.
spawnEnemy(tileCol, tileRow, type, direction) ==
    [ x |-> (tileCol * 32 + 4) * PX,
      y |-> (tileRow * 32 - 28) * PX,
      width |-> 24 * PX, height |-> 28 * PX,
      velocityX |-> direction * 70 * VEL,
      velocityY |-> 0,
      alive |-> TRUE,
      phase |-> 0,
      type |-> type ]

InitialEnemies(directions) ==
    [ i \in 1 .. Len(EnemySpawns) |->
        spawnEnemy(EnemySpawns[i][1], EnemySpawns[i][2], EnemySpawns[i][3],
                   directions[i]) ]

InitialInputs ==
    [ moveLeft |-> FALSE, moveRight |-> FALSE, jump |-> FALSE,
      run |-> FALSE, attack |-> FALSE, restart |-> FALSE ]

InitialVisuals ==
    [ streakCount |-> STREAK_COUNT, orbShadowBlur |-> 15, enemyShadowBlur |-> 20 ]


\* ------------------------------------------------------------------------
\* State
\* ------------------------------------------------------------------------
VARIABLES
    inputs,          \* inputsRef: the six boolean intents
    player,          \* playerRef
    enemies,         \* enemiesRef
    orbs,            \* orbsRef
    camera,          \* cameraRef, whole px
    trail,           \* trailRef
    dead,            \* deadRef
    won,             \* wonRef
    flightMsgTimer,  \* flightMsgTimerRef, SECOND units
    footstepTimer,   \* footstepTimerRef, SECOND units
    viewport,        \* canvas clientWidth / clientHeight, whole px
    lastFrameTime,   \* lastFrameTimeRef, MS units since construction
    accumulator,     \* accumulatorRef, MS units
    visuals,         \* visualsRef: streakCount, orbShadowBlur, enemyShadowBlur
    drawTimeAvg,     \* drawTimeAvgMsRef in ms, as the fraction num / den
    isRunning,       \* the loop's liveness flag
    listening,       \* the window keydown / keyup / resize listeners are registered
    hasExitCallback, \* the onExitToMenu prop was supplied
    rafQueue,        \* ids of the requested animation frames not yet fired
    nextRafId,       \* the id the next requestAnimationFrame returns
    pc,              \* position of the running gameLoop callback, 0 when none runs
    exitCalls,       \* number of onExitToMenu() calls made
    \* history variables (not program state)
    budget,          \* external events still allowed in this run
    stepsRun,        \* stepSimulation calls made so far
    rendersRun,      \* renderFrame calls made so far
    elapsedTotal,    \* sum of the deltas the live callbacks have accumulated
    cbLog,           \* "step" / "render" calls of the current or last live callback
    cbAccStart,      \* accumulator right after `accumulatorRef.current += delta`
    stepDeltas,      \* the fixedDeltaSeconds arguments stepSimulation was called with
    staleFires,      \* callbacks that fired after teardown
    ignoredKeys,     \* key events that arrived with the listeners removed
    frozenSteps,     \* steps that began dead or won with restart not asserted
    revivals,        \* steps that began dead or won with restart asserted
    flightGains,     \* times canFly went from false to true
    keyWait,         \* the key-down that waits for a step: since when, the
                     \* interval of the last live callback, the last wait
    \* the collision resolver and the tile lookups on their own
    probe,           \* the rectangle of a lookup made outside a session
    probed           \* what the lookup returned and the cells it read

simVars ==
    << player, enemies, orbs, camera, trail, dead, won,
       flightMsgTimer, footstepTimer >>
loopVars == << lastFrameTime, accumulator, isRunning, rafQueue, nextRafId, pc >>
renderVars == << visuals, drawTimeAvg >>
hostVars == << inputs, viewport, listening, hasExitCallback, exitCalls >>
histVars ==
    << budget, stepsRun, rendersRun, elapsedTotal, cbLog, cbAccStart,
       stepDeltas, staleFires, ignoredKeys, frozenSteps, revivals, flightGains,
       keyWait >>
probeVars == << probe, probed >>
vars == << simVars, loopVars, renderVars, hostVars, histVars, probeVars >>

\* The simulation state as one record, and its assignment back to the refs
World ==
    [ player |-> player, enemies |-> enemies, orbs |-> orbs,
      camera |-> camera, trail |-> trail, dead |-> dead, won |-> won,
      flightMsgTimer |-> flightMsgTimer, footstepTimer |-> footstepTimer ]

SetWorld(w) ==
    /\ player' = w.player
    /\ enemies' = w.enemies
    /\ orbs' = w.orbs
    /\ camera' = w.camera
    /\ trail' = w.trail
    /\ dead' = w.dead
    /\ won' = w.won
    /\ flightMsgTimer' = w.flightMsgTimer
    /\ footstepTimer' = w.footstepTimer

\* ------------------------------------------------------------------------
\* renderFrame(nowMs): what it writes.  The draw helpers only read.
\* ------------------------------------------------------------------------
\* A fraction num / den with den a power of ten, in lowest such form
RECURSIVE Reduce10(_)
Reduce10(q) ==
    IF q.den > 1 /\ q.num % 10 = 0
    THEN Reduce10([num |-> q.num \div 10, den |-> q.den \div 10])
    ELSE q

\* drawTimeAvg = prev === 0 ? curr : prev * 0.9 + curr * 0.1
NextDrawTimeAvg(prev, currMs) ==
    IF prev.num = 0 THEN [num |-> currMs, den |-> 1]
    ELSE Reduce10([num |-> 9 * prev.num + currMs * prev.den, den |-> 10 * prev.den])

AvgAbove(avg, ms) == avg.num > ms * avg.den
AvgBelow(avg, ms) == avg.num < ms * avg.den

\* Variant: a reduction without the lower bounds
AdaptQualityUnbounded(v, avg) ==
    IF AvgAbove(avg, 10)
    THEN [ streakCount |-> FloorDiv(v.streakCount * 95, 100),
           orbShadowBlur |-> FloorDiv(v.orbShadowBlur * 95, 100),
           enemyShadowBlur |-> FloorDiv(v.enemyShadowBlur * 95, 100) ]
    ELSE IF AvgBelow(avg, 6)
    THEN [ streakCount |-> Min(STREAK_COUNT, CeilDiv(v.streakCount * 103, 100)),
           orbShadowBlur |-> Min(15, CeilDiv(v.orbShadowBlur * 103, 100)),
           enemyShadowBlur |-> Min(20, CeilDiv(v.enemyShadowBlur * 103, 100)) ]
    ELSE v

\* Adaptive quality: if draw time spikes, reduce effects; if low, restore
AdaptQuality(v, avg) ==
    IF AvgAbove(avg, 10)
    THEN [ streakCount |-> Max(10, FloorDiv(v.streakCount * 95, 100)),
           orbShadowBlur |-> Max(6, FloorDiv(v.orbShadowBlur * 95, 100)),
           enemyShadowBlur |-> Max(8, FloorDiv(v.enemyShadowBlur * 95, 100)) ]
    ELSE IF AvgBelow(avg, 6)
    THEN [ streakCount |-> Min(STREAK_COUNT, CeilDiv(v.streakCount * 103, 100)),
           orbShadowBlur |-> Min(15, CeilDiv(v.orbShadowBlur * 103, 100)),
           enemyShadowBlur |-> Min(20, CeilDiv(v.enemyShadowBlur * 103, 100)) ]
    ELSE v

\* What renderFrame leaves in the refs it can reach:
\* [world, accumulator, visuals, drawTimeAvg]
Rendered(w, acc, v, newAvg) ==
    [ world |-> w,
      accumulator |-> acc,
      visuals |-> AdaptQuality(v, newAvg),
      drawTimeAvg |-> newAvg ]

\* Variant: a render that consumes the time left in the accumulator
renderFrameDraining(w, acc, v, avg, currMs) ==
    Rendered(w, 0, v, NextDrawTimeAvg(avg, currMs))

renderFrame(w, acc, v, avg, currMs) ==
    Rendered(w, acc, v, NextDrawTimeAvg(avg, currMs))

\* ------------------------------------------------------------------------
\* Bounds and input sets of the model
\* ------------------------------------------------------------------------
\* External events (frame callbacks, key events, resizes, dev-overlay
\* actions, teardown) per run
MaxEvents == 3

\* Wall time between two frame callbacks, MS units (FRAME_DURATION_MS is
\* 1000): less than a step, exactly a step, two steps and a remainder.
Deltas == { 400, 600, FRAME_DURATION_MS, 2600 }

\* Measured draw times t1 - t0 of a render, whole ms
DrawTimesMs == { 4, 8, 12 }

\* event.code values
Codes ==
    { "ArrowLeft", "KeyA", "ArrowRight", "KeyD", "ShiftLeft", "ShiftRight",
      "KeyX", "KeyS", "KeyR", "Space", "KeyW", "ArrowUp", "ArrowDown",
      "Enter", "KeyM" }

\* window.innerWidth x window.innerHeight: the window the plays run in, a
\* full-screen desktop window, and a narrow one (a small embed, or the window
\* with an inspector docked beside the page)
Viewports ==
    { [width |-> 800, height |-> 600], [width |-> 1920, height |-> 1080],
      [width |-> 200, height |-> 600] }


\* ------------------------------------------------------------------------
\* Initial states: the component right after its effect ran, and the
\* component some frames into a play-through
\* ------------------------------------------------------------------------
FirstRafId == 1

\* No lookup is being made outside the session
NoProbe == [ call |-> "none" ]

\* Variant: an overlay action that flips every alive flag
KillAllFlipping(list) == [ i \in 1 .. Len(list) |-> [ list[i] EXCEPT !.alive = ~@ ] ]

\* enemiesRef.current.forEach(e => e.alive = false) and its orb counterpart
KillAll(list) == [ i \in 1 .. Len(list) |-> [ list[i] EXCEPT !.alive = FALSE ] ]
CollectAll(list) == [ i \in 1 .. Len(list) |-> [ list[i] EXCEPT !.collected = TRUE ] ]

\* The refs right after the effect ran
MountWorld(directions) ==
    [ player |-> InitialPlayer,
      enemies |-> InitialEnemies(directions),
      orbs |-> InitialOrbs,
      camera |-> [x |-> 0, y |-> 0],
      trail |-> << >>,
      dead |-> FALSE,
      won |-> FALSE,
      flightMsgTimer |-> 0,
      footstepTimer |-> 0 ]

\* A play-through is a script of held keys, frame by frame.  Every frame of
\* it arrives FRAME_DURATION_MS after the one before, so it runs one step
\* and leaves the accumulator at 0, and every render of it measures 8 ms
\* (PlayDrawAvg), which leaves the visuals where they start, except in the
\* stall and recover plays (DrawTimeAt).
\*   hop:    hold right and run; after each `runFrames` frames hold jump for
\*           `jumpFrames` frames
\*   flight: with the enemies killed from the dev overlay before the first
\*           frame, hold right, run and jump for `flyFrames` frames, then
\*           release jump
\*   wait:   no key is touched
\*   left:   hold left and run
\*   stall:  no key is touched; every render measures 12 ms
\*   recover: no key is touched; the renders measure RecoveringDraws
\*   walk:   the keys of OrbWalk
RunRight == [ InitialInputs EXCEPT !.moveRight = TRUE, !.run = TRUE ]
RunRightJump == [ RunRight EXCEPT !.jump = TRUE ]
WalkRight == [ InitialInputs EXCEPT !.moveRight = TRUE ]
RunLeft == [ InitialInputs EXCEPT !.moveLeft = TRUE, !.run = TRUE ]
WalkRightJump == [ WalkRight EXCEPT !.jump = TRUE ]

\* <<keys held, last frame they are held in>>: two running jumps to the
\* first platform, landing at a walk, then a walk along it
OrbWalk ==
    << <<RunRight, 14>>, <<RunRightJump, 38>>, <<RunRight, 58>>,
       <<RunRightJump, 82>>, <<RunRight, 94>>, <<WalkRightJump, 101>>,
       <<WalkRight, 124>> >>

\* The keys a script holds in a frame (those of its last entry afterwards)
ScriptKeys(script, frame) ==
    IF frame > script[Len(script)][2] THEN script[Len(script)][1]
    ELSE script[CHOOSE i \in 1 .. Len(script) :
                    /\ frame <= script[i][2]
                    /\ (i = 1 \/ frame > script[i - 1][2])][1]

KeysAt(play, frame) ==
    IF frame = 0 \/ play.kind \in { "wait", "stall", "recover" } THEN InitialInputs
    ELSE IF play.kind = "walk" THEN ScriptKeys(OrbWalk, frame)
    ELSE IF play.kind = "left" THEN RunLeft
    ELSE IF play.kind = "hop"
    THEN IF (frame - 1) % (play.runFrames + play.jumpFrames) < play.runFrames
         THEN RunRight ELSE RunRightJump
    ELSE IF frame <= play.flyFrames THEN RunRightJump ELSE RunRight

PlayViewport == [width |-> 800, height |-> 600]
PlayDrawAvg == [num |-> 8, den |-> 1]

\* t1 - t0 of the renders of a machine that recovers from a slow first frame
RecoveringDraws == << 12, 2, 1, 0, 0, 0, 0, 0 >>

\* t1 - t0 of the render of a frame of the play, whole ms: 12 on a machine
\* that stalls, RecoveringDraws on one that recovers, 8 otherwise
DrawTimeAt(play, frame) ==
    IF play.kind = "stall" THEN 12
    ELSE IF play.kind = "recover" THEN RecoveringDraws[frame]
    ELSE 8

\* visualsRef and drawTimeAvgMsRef after the renders of frames 1 .. frame
RECURSIVE RenderedAfter(_, _)
RenderedAfter(play, frame) ==
    IF frame = 0
    THEN [ visuals |-> InitialVisuals, drawTimeAvg |-> [num |-> 0, den |-> 1] ]
    ELSE CHOOSE after \in
             { [ visuals |-> AdaptQuality(before.visuals,
                                          NextDrawTimeAvg(before.drawTimeAvg,
                                                          DrawTimeAt(play, frame))),
                 drawTimeAvg |-> NextDrawTimeAvg(before.drawTimeAvg,
                                                 DrawTimeAt(play, frame)) ] :
                 before \in { RenderedAfter(play, frame - 1) } } : TRUE

\* The same after the whole play; renders of 8 ms each leave the average at
\* 8 ms and the visuals where they start
PlayRendered(play) ==
    IF play.kind \in { "stall", "recover" }
    THEN RenderedAfter(play, play.frames)
    ELSE [ visuals |-> InitialVisuals,
           drawTimeAvg |-> IF play.frames = 0 THEN [num |-> 0, den |-> 1]
                           ELSE PlayDrawAvg ]

\* The world after frames from .. to of the play, from world w
\* (each half is computed before the next one starts from it)
RECURSIVE Replay(_, _, _, _)
Replay(w, play, from, to) ==
    IF from > to THEN w
    ELSE IF from = to
    THEN stepSimulation(w, KeysAt(play, from), createBaselineLevel, PlayViewport,
                        SECOND \div TARGET_FPS)
    ELSE CHOOSE after \in
             { Replay(half, play, (from + to) \div 2 + 1, to) :
                 half \in { Replay(w, play, from, (from + to) \div 2) } } : TRUE

PlayStart(play) ==
    IF play.kind = "flight"
    THEN [ MountWorld(play.directions) EXCEPT !.enemies = KillAll(@) ]
    ELSE MountWorld(play.directions)

PlayedWorld(play) == Replay(PlayStart(play), play, 1, play.frames)

LeftFirst == <<-1, 1, -1, 1, -1, 1>>
RightFirst == <<1, -1, 1, -1, 1, -1>>

\* The plays the runs start from: the mount itself (no frame yet) with the
\* two direction draws, and plays that stop one frame short of
\*   - the player landing on the first enemy        (frame 264 of the play)
\*   - the player running into the first enemy      (frame 260)
\*   - the player falling out of the world          (frame 238)
\*   - the player reaching the flag                 (frame 1166)
\*   - the player rising into the lower left corner of the first platform
\*                                                  (frame 94)
\*   - the player walking to 22 px from the first orb (frame 125)
\* and plays that leave
\*   - the player standing where it first landed    (frame 40)
\*   - the first enemy behind the left edge of the view (frame 339)
Plays ==
    { [kind |-> "hop", runFrames |-> 1, jumpFrames |-> 0, flyFrames |-> 0,
       frames |-> 0, directions |-> LeftFirst],
      [kind |-> "hop", runFrames |-> 1, jumpFrames |-> 0, flyFrames |-> 0,
       frames |-> 0, directions |-> RightFirst],
      [kind |-> "hop", runFrames |-> 28, jumpFrames |-> 20, flyFrames |-> 0,
       frames |-> 263, directions |-> LeftFirst],
      [kind |-> "hop", runFrames |-> 14, jumpFrames |-> 24, flyFrames |-> 0,
       frames |-> 259, directions |-> LeftFirst],
      [kind |-> "hop", runFrames |-> 17, jumpFrames |-> 1, flyFrames |-> 0,
       frames |-> 237, directions |-> LeftFirst],
      [kind |-> "flight", runFrames |-> 0, jumpFrames |-> 0, flyFrames |-> 1113,
       frames |-> 1165, directions |-> LeftFirst],
      [kind |-> "hop", runFrames |-> 11, jumpFrames |-> 8, flyFrames |-> 0,
       frames |-> 93, directions |-> LeftFirst],
      [kind |-> "walk", runFrames |-> 0, jumpFrames |-> 0, flyFrames |-> 0,
       frames |-> 124, directions |-> LeftFirst],
      [kind |-> "wait", runFrames |-> 0, jumpFrames |-> 0, flyFrames |-> 0,
       frames |-> 40, directions |-> LeftFirst],
      [kind |-> "hop", runFrames |-> 1, jumpFrames |-> 2, flyFrames |-> 0,
       frames |-> 339, directions |-> LeftFirst],
      [kind |-> "left", runFrames |-> 0, jumpFrames |-> 0, flyFrames |-> 0,
       frames |-> 16, directions |-> LeftFirst],
      [kind |-> "flight", runFrames |-> 0, jumpFrames |-> 0, flyFrames |-> 23,
       frames |-> 23, directions |-> LeftFirst],
      [kind |-> "flight", runFrames |-> 0, jumpFrames |-> 0, flyFrames |-> 322,
       frames |-> 369, directions |-> LeftFirst],
      [kind |-> "stall", runFrames |-> 0, jumpFrames |-> 0, flyFrames |-> 0,
       frames |-> 40, directions |-> LeftFirst],
      [kind |-> "recover", runFrames |-> 0, jumpFrames |-> 0, flyFrames |-> 0,
       frames |-> 8, directions |-> LeftFirst] }

\* The session after the play, w being the world it leaves, in a window of
\* the given size and with the given number of events to come
InitGameIn(play, w, size, events) ==
    /\ inputs = KeysAt(play, play.frames)
    /\ player = w.player
    /\ enemies = w.enemies
    /\ orbs = w.orbs
    /\ camera = w.camera
    /\ trail = w.trail
    /\ dead = w.dead
    /\ won = w.won
    /\ flightMsgTimer = w.flightMsgTimer
    /\ footstepTimer = w.footstepTimer
    /\ viewport = size
    /\ lastFrameTime = play.frames * FRAME_DURATION_MS
    /\ accumulator = 0
    /\ visuals = PlayRendered(play).visuals
    /\ drawTimeAvg = PlayRendered(play).drawTimeAvg
    /\ isRunning = TRUE
    /\ listening = TRUE
    /\ hasExitCallback = TRUE
    /\ rafQueue = { FirstRafId + play.frames }
    /\ nextRafId = FirstRafId + play.frames + 1
    /\ pc = 0
    /\ exitCalls = 0
    /\ budget = events
    /\ stepsRun = play.frames
    /\ rendersRun = play.frames
    /\ elapsedTotal = play.frames * FRAME_DURATION_MS
    /\ cbLog = IF play.frames = 0 THEN << >> ELSE << "step", "render" >>
    /\ cbAccStart = IF play.frames = 0 THEN 0 ELSE FRAME_DURATION_MS
    /\ stepDeltas = IF play.frames = 0 THEN {} ELSE { SECOND \div TARGET_FPS }
    /\ staleFires = 0
    /\ ignoredKeys = 0
    /\ frozenSteps = 0
    /\ revivals = 0
    /\ flightGains = IF w.player.canFly THEN 1 ELSE 0
    /\ keyWait = [ since |-> -1,
                   delta |-> IF play.frames = 0 THEN 0 ELSE FRAME_DURATION_MS,
                   latency |-> -1 ]

InitGame(play, w) == InitGameIn(play, w, PlayViewport, MaxEvents)

InitSession(play, w) ==
    /\ InitGame(play, w)
    /\ probe = NoProbe
    /\ probed = NoProbe

InitPlay(play) == \E w \in { PlayedWorld(play) } : InitSession(play, w)

\* ------------------------------------------------------------------------
\* Keyboard and resize handlers
\* ------------------------------------------------------------------------
\* The flag assignments of handleKeyDown (pressed = TRUE) and handleKeyUp
\* (pressed = FALSE).  handleKeyUp has no KeyM / Enter branch.
KeyFlags(in, code, pressed) ==
    [ moveLeft |-> IF code \in {"ArrowLeft", "KeyA"} THEN pressed ELSE in.moveLeft,
      moveRight |-> IF code \in {"ArrowRight", "KeyD"} THEN pressed ELSE in.moveRight,
      run |-> IF code \in {"ShiftLeft", "ShiftRight", "KeyX"} THEN pressed ELSE in.run,
      attack |-> IF code = "KeyS" THEN pressed ELSE in.attack,
      restart |-> IF code = "KeyR" THEN pressed ELSE in.restart,
      jump |-> IF code \in {"Space", "KeyW", "ArrowUp"} THEN pressed ELSE in.jump ]

\* Variant: a confirmation that does not look at won
CallsExitAnytime(code, isWon, callbackSupplied) ==
    code \in {"Enter", "Space"} /\ callbackSupplied

\* (code === 'Enter' || code === 'Space') && wonRef.current && onExitToMenu
CallsExit(code, isWon, callbackSupplied) ==
    code \in {"Enter", "Space"} /\ isWon /\ callbackSupplied

Spend == budget > 0 /\ budget' = budget - 1

\* A keydown event on the window; it reaches handleKeyDown while the
\* listener is registered.
handleKeyDown(code) ==
    /\ pc = 0 /\ Spend
    /\ UNCHANGED probeVars
    /\ inputs' = IF listening THEN KeyFlags(inputs, code, TRUE) ELSE inputs
    /\ exitCalls' = IF listening /\ CallsExit(code, won, hasExitCallback)
                    THEN exitCalls + 1 ELSE exitCalls
    /\ UNCHANGED << simVars, loopVars, renderVars, viewport, listening,
                    hasExitCallback >>
    /\ ignoredKeys' = IF listening THEN ignoredKeys ELSE ignoredKeys + 1
    /\ keyWait' = IF /\ listening
                     /\ KeyFlags(inputs, code, TRUE) # inputs
                     /\ keyWait.since = -1
                  THEN [ keyWait EXCEPT !.since = elapsedTotal ]
                  ELSE keyWait
    /\ UNCHANGED << stepsRun, rendersRun, elapsedTotal, cbLog, cbAccStart,
                    stepDeltas, staleFires, frozenSteps, revivals, flightGains >>

\* A keyup event on the window
handleKeyUp(code) ==
    /\ pc = 0 /\ Spend
    /\ UNCHANGED probeVars
    /\ inputs' = IF listening THEN KeyFlags(inputs, code, FALSE) ELSE inputs
    /\ UNCHANGED << simVars, loopVars, renderVars, viewport, listening,
                    hasExitCallback, exitCalls >>
    /\ ignoredKeys' = IF listening THEN ignoredKeys ELSE ignoredKeys + 1
    /\ keyWait' = IF listening /\ KeyFlags(inputs, code, FALSE) # inputs
                  THEN [ keyWait EXCEPT !.since = -1 ]
                  ELSE keyWait
    /\ UNCHANGED << stepsRun, rendersRun, elapsedTotal, cbLog, cbAccStart,
                    stepDeltas, staleFires, frozenSteps, revivals, flightGains >>

\* A resize event on the window
handleResize(size) ==
    /\ pc = 0 /\ Spend
    /\ UNCHANGED probeVars
    /\ viewport' = IF listening THEN size ELSE viewport
    /\ UNCHANGED << simVars, loopVars, renderVars, inputs, listening,
                    hasExitCallback, exitCalls >>
    /\ UNCHANGED << stepsRun, rendersRun, elapsedTotal, cbLog, cbAccStart,
                    stepDeltas, staleFires, ignoredKeys, keyWait, frozenSteps, revivals,
                    flightGains >>

\* ------------------------------------------------------------------------
\* Dev-overlay actions.  The overlay is a child of the component: it is
\* unmounted with it, so no action arrives after teardown.
\* ------------------------------------------------------------------------
DevAction(newCanFly, newEnemies, newOrbs, newInputs) ==
    /\ isRunning /\ pc = 0 /\ Spend
    /\ UNCHANGED probeVars
    /\ player' = [ player EXCEPT !.canFly = newCanFly ]
    /\ enemies' = newEnemies
    /\ orbs' = newOrbs
    /\ inputs' = newInputs
    /\ UNCHANGED << camera, trail, dead, won, flightMsgTimer, footstepTimer >>
    /\ UNCHANGED << loopVars, renderVars, viewport, listening,
                    hasExitCallback, exitCalls >>
    /\ flightGains' = IF ~player.canFly /\ newCanFly THEN flightGains + 1
                      ELSE flightGains
    /\ UNCHANGED << stepsRun, rendersRun, elapsedTotal, cbLog, cbAccStart,
                    stepDeltas, staleFires, ignoredKeys, keyWait, frozenSteps, revivals >>


\* What the overlay's callbacks write, as one record, and each callback as a
\* function of it
DevState ==
    [ canFly |-> player.canFly, enemies |-> enemies, orbs |-> orbs, inputs |-> inputs ]
ToggleFlightOf(st) == [ st EXCEPT !.canFly = ~st.canFly ]
GrantFlightOf(st) == [ st EXCEPT !.canFly = TRUE ]
RevokeFlightOf(st) == [ st EXCEPT !.canFly = FALSE ]
KillAllEnemiesOf(st) == [ st EXCEPT !.enemies = KillAll(st.enemies) ]
CollectAllOrbsOf(st) == [ st EXCEPT !.orbs = CollectAll(st.orbs) ]
RestartOf(st) == [ st EXCEPT !.inputs.restart = TRUE ]

DevApply(st) == DevAction(st.canFly, st.enemies, st.orbs, st.inputs)

toggleFlight == DevApply(ToggleFlightOf(DevState))
grantFlight == DevApply(GrantFlightOf(DevState))
revokeFlight == DevApply(RevokeFlightOf(DevState))
killAllEnemies == DevApply(KillAllEnemiesOf(DevState))
collectAllOrbs == DevApply(CollectAllOrbsOf(DevState))
\* Variant: an overlay restart that clears the end state itself
devRestartImmediate ==
    /\ isRunning /\ pc = 0 /\ Spend
    /\ UNCHANGED probeVars
    /\ SetWorld([ restartPlayer(World) EXCEPT !.dead = FALSE, !.won = FALSE ])
    /\ UNCHANGED << loopVars, renderVars, hostVars >>
    /\ UNCHANGED << stepsRun, rendersRun, elapsedTotal, cbLog, cbAccStart,
                    stepDeltas, staleFires, ignoredKeys, keyWait, frozenSteps, revivals,
                    flightGains >>

devRestart == DevApply(RestartOf(DevState))


\* ------------------------------------------------------------------------
\* gameLoop(nowMs), statement by statement.  No other handler runs while a
\* callback is between two of its statements (pc # 0).
\* ------------------------------------------------------------------------
\* Variant: the render placed before the drain
GameLoopBodyRenderFirst == << "renderFrame", "while", "requestAnimationFrame" >>

\* The statements after `accumulatorRef.current += delta`, in program order
GameLoopBody == << "while", "renderFrame", "requestAnimationFrame" >>

Statement == IF pc = 0 THEN "none" ELSE GameLoopBody[pc]
NextPc == IF pc = Len(GameLoopBody) THEN 0 ELSE pc + 1

\* Variant: a loop that needs more than one full step in the accumulator
LoopContinuesStrict(acc) == acc > FRAME_DURATION_MS

\* Variant: a loop that waits for two steps' worth of time
LoopContinuesAtTwoSteps(acc) == acc >= 2 * FRAME_DURATION_MS

\* while (accumulatorRef.current >= FRAME_DURATION_MS)
LoopContinues(acc) == acc >= FRAME_DURATION_MS

\* Variant: a variable-delta loop, stepping by whatever the accumulator holds
StepArgumentFromAccumulator(acc) == (acc * SECOND) \div (1000 * MS)

\* The argument the loop passes to stepSimulation when the accumulator holds
\* acc: FRAME_DURATION_MS / 1000, ms to seconds
StepArgument(acc) == (FRAME_DURATION_MS * SECOND) \div (1000 * MS)

\* What the while body subtracts from the accumulator
StepCost == FRAME_DURATION_MS

\* A requested frame fires after `elapsed` ms: if (!isRunning) return;
\* delta = nowMs - last; last = nowMs; accumulator += delta
FrameCallback(id, elapsed) ==
    /\ pc = 0 /\ Spend
    /\ UNCHANGED probeVars
    /\ id \in rafQueue
    /\ rafQueue' = rafQueue \ {id}
    /\ IF isRunning
       THEN LET nowMs == lastFrameTime + elapsed
                delta == nowMs - lastFrameTime
            IN  /\ lastFrameTime' = nowMs
                /\ accumulator' = accumulator + delta
                /\ pc' = 1
                /\ elapsedTotal' = elapsedTotal + delta
                /\ cbLog' = << >>
                /\ cbAccStart' = accumulator + delta
                /\ keyWait' = [ keyWait EXCEPT !.delta = delta ]
                /\ UNCHANGED staleFires
       ELSE /\ staleFires' = staleFires + 1
            /\ UNCHANGED << lastFrameTime, accumulator, pc, elapsedTotal,
                            cbLog, cbAccStart, keyWait >>
    /\ UNCHANGED << simVars, renderVars, hostVars, isRunning, nextRafId >>
    /\ UNCHANGED << stepsRun, rendersRun, stepDeltas, ignoredKeys, frozenSteps,
                    revivals, flightGains >>

\* One iteration of the while loop
SimulationStep ==
    /\ Statement = "while" /\ LoopContinues(accumulator)
    /\ UNCHANGED probeVars
    /\ SetWorld(stepSimulation(World, inputs, createBaselineLevel, viewport,
                               StepArgument(accumulator)))
    /\ accumulator' = accumulator - StepCost
    /\ stepsRun' = stepsRun + 1
    /\ stepDeltas' = stepDeltas \cup { StepArgument(accumulator) }
    /\ cbLog' = Append(cbLog, "step")
    /\ frozenSteps' = IF (dead \/ won) /\ ~inputs.restart
                      THEN frozenSteps + 1 ELSE frozenSteps
    /\ revivals' = IF (dead \/ won) /\ inputs.restart
                   THEN revivals + 1 ELSE revivals
    /\ flightGains' = IF ~player.canFly /\ player'.canFly
                      THEN flightGains + 1 ELSE flightGains
    /\ UNCHANGED << lastFrameTime, isRunning, rafQueue, nextRafId, pc >>
    /\ UNCHANGED << renderVars, hostVars >>
    /\ keyWait' = IF keyWait.since >= 0
                  THEN [ keyWait EXCEPT !.since = -1,
                                        !.latency = elapsedTotal - keyWait.since ]
                  ELSE keyWait
    /\ UNCHANGED << budget, rendersRun, elapsedTotal, cbAccStart, staleFires,
                    ignoredKeys >>

\* The while condition is false: on to the next statement
LoopExit ==
    /\ Statement = "while" /\ ~LoopContinues(accumulator)
    /\ UNCHANGED probeVars
    /\ pc' = NextPc
    /\ UNCHANGED << simVars, renderVars, hostVars, histVars >>
    /\ UNCHANGED << lastFrameTime, accumulator, isRunning, rafQueue, nextRafId >>

RenderFrame(currMs) ==
    /\ Statement = "renderFrame"
    /\ UNCHANGED probeVars
    /\ LET r == renderFrame(World, accumulator, visuals, drawTimeAvg, currMs)
       IN  /\ SetWorld(r.world)
           /\ accumulator' = r.accumulator
           /\ visuals' = r.visuals
           /\ drawTimeAvg' = r.drawTimeAvg
    /\ pc' = NextPc
    /\ rendersRun' = rendersRun + 1
    /\ cbLog' = Append(cbLog, "render")
    /\ UNCHANGED << lastFrameTime, isRunning, rafQueue, nextRafId >>
    /\ UNCHANGED hostVars
    /\ UNCHANGED << budget, stepsRun, elapsedTotal, cbAccStart, stepDeltas,
                    staleFires, ignoredKeys, keyWait, frozenSteps, revivals, flightGains >>

\* Variant: a callback that requests two frames
RescheduleTwice ==
    /\ Statement = "requestAnimationFrame"
    /\ UNCHANGED probeVars
    /\ rafQueue' = rafQueue \cup { nextRafId, nextRafId + 1 }
    /\ nextRafId' = nextRafId + 2
    /\ pc' = NextPc
    /\ UNCHANGED << simVars, renderVars, hostVars, histVars >>
    /\ UNCHANGED << lastFrameTime, accumulator, isRunning >>

\* requestAnimationFrame(gameLoop)
Reschedule ==
    /\ Statement = "requestAnimationFrame"
    /\ UNCHANGED probeVars
    /\ rafQueue' = rafQueue \cup { nextRafId }
    /\ nextRafId' = nextRafId + 1
    /\ pc' = NextPc
    /\ UNCHANGED << simVars, renderVars, hostVars, histVars >>
    /\ UNCHANGED << lastFrameTime, accumulator, isRunning >>

\* Variant: a cleanup that leaves the window listeners registered
TeardownKeepingListeners ==
    /\ isRunning /\ pc = 0 /\ Spend
    /\ UNCHANGED probeVars
    /\ isRunning' = FALSE
    /\ rafQueue' = rafQueue \ { FirstRafId }
    /\ UNCHANGED << simVars, renderVars, hostVars >>
    /\ UNCHANGED << lastFrameTime, accumulator, nextRafId, pc >>
    /\ UNCHANGED << stepsRun, rendersRun, elapsedTotal, cbLog, cbAccStart,
                    stepDeltas, staleFires, ignoredKeys, keyWait, frozenSteps, revivals,
                    flightGains >>

\* The effect's cleanup: isRunning = false; cancelAnimationFrame(raf), raf
\* being the id of the first request; the listeners are removed.
Teardown ==
    /\ isRunning /\ pc = 0 /\ Spend
    /\ UNCHANGED probeVars
    /\ isRunning' = FALSE
    /\ rafQueue' = rafQueue \ { FirstRafId }
    /\ listening' = FALSE
    /\ UNCHANGED << simVars, renderVars, inputs, viewport, hasExitCallback,
                    exitCalls >>
    /\ UNCHANGED << lastFrameTime, accumulator, nextRafId, pc >>
    /\ UNCHANGED << stepsRun, rendersRun, elapsedTotal, cbLog, cbAccStart,
                    stepDeltas, staleFires, ignoredKeys, keyWait, frozenSteps, revivals,
                    flightGains >>

\* ------------------------------------------------------------------------
\* Specification
\* ------------------------------------------------------------------------
Init == \E play \in Plays : InitPlay(play)

Next ==
    \/ \E code \in Codes : handleKeyDown(code)
    \/ \E code \in Codes : handleKeyUp(code)
    \/ \E size \in Viewports : handleResize(size)
    \/ toggleFlight
    \/ grantFlight
    \/ revokeFlight
    \/ killAllEnemies
    \/ collectAllOrbs
    \/ devRestart
    \/ \E id \in rafQueue, elapsed \in Deltas : FrameCallback(id, elapsed)
    \/ SimulationStep
    \/ LoopExit
    \/ \E currMs \in DrawTimesMs : RenderFrame(currMs)
    \/ Reschedule
    \/ Teardown

Spec == Init /\ [][Next]_vars

\* ------------------------------------------------------------------------
\* Properties of the game loop
\* ------------------------------------------------------------------------
StepsIn(log) == Cardinality({ i \in 1 .. Len(log) : log[i] = "step" })

\* The next transition is a stepSimulation call
AboutToStep == Statement = "while" /\ LoopContinues(accumulator)

\* The running or last live callback is past its while loop
Drained == Statement # "while"

\* C1: when the accumulator, right after the frame delta was added, equals
\* the step duration exactly, the callback runs stepSimulation exactly once
\* and leaves the accumulator at 0.
C1_ExactStepRunsOnce ==
    (Drained /\ cbAccStart = FRAME_DURATION_MS)
        => (StepsIn(cbLog) = 1 /\ accumulator = 0)

\* Two callbacks 400 and 600 units apart: the second finds exactly one step
C1_Witness ==
    /\ pc = 0 /\ rendersRun = 2 /\ stepsRun = 1
    /\ cbAccStart = FRAME_DURATION_MS
    /\ cbLog = << "step", "render" >>
    /\ accumulator = 0

\* C2: every callback runs floor((accumulator before + delta) / step) steps
\* and leaves 0 <= accumulator < step; (steps run) * step + accumulator is the
\* elapsed time accumulated so far; every step is called with 1/60 s.
C2_FixedStepAccounting ==
    /\ stepDeltas \subseteq { SECOND \div TARGET_FPS }
    /\ stepsRun * FRAME_DURATION_MS + accumulator = elapsedTotal
    /\ Drained =>
          /\ 0 <= accumulator
          /\ accumulator < FRAME_DURATION_MS
          /\ StepsIn(cbLog) = cbAccStart \div FRAME_DURATION_MS

\* A callback of two steps that leaves 600, then one that starts with 1200
C2_Witness ==
    /\ pc = 0 /\ rendersRun = 2 /\ stepsRun = 3
    /\ cbAccStart = 1200
    /\ cbLog = << "step", "render" >>
    /\ accumulator = 200

\* C3: every live callback calls renderFrame exactly once, after all of its
\* steps: a render is the last call a callback has made, every finished live
\* callback ended with one, and the renders number the finished callbacks.
C3_OneRenderAfterSteps ==
    /\ \A i \in 1 .. Len(cbLog) : cbLog[i] = "render" => i = Len(cbLog)
    /\ (pc = 0 /\ elapsedTotal > 0) =>
          (Len(cbLog) > 0 /\ cbLog[Len(cbLog)] = "render")
    /\ pc = 0 => rendersRun = nextRafId - (FirstRafId + 1)

\* A callback that ran two steps and then its render
C3_Witness ==
    /\ pc = 0 /\ rendersRun = 1
    /\ cbLog = << "step", "step", "render" >>

\* C4: renderFrame leaves player, enemies, orbs, camera, trail, dead, won,
\* the timers and the accumulator as they are; of the refs it writes only the
\* draw-time average and the visual quality parameters.
C4_RenderLeavesSimulation ==
    [][ Statement = "renderFrame" =>
          /\ UNCHANGED << player, enemies, orbs, camera, trail, dead, won,
                          flightMsgTimer, footstepTimer >>
          /\ UNCHANGED << accumulator, lastFrameTime, inputs, viewport >> ]_vars

\* A render that lowered the quality, with time left in the accumulator
C4_Witness ==
    /\ Statement = "requestAnimationFrame"
    /\ visuals.streakCount < STREAK_COUNT
    /\ accumulator > 0
    /\ stepsRun > 0

\* C5: once the cleanup has run no step and no render runs, nothing is
\* scheduled, and key events leave the input flags alone, also when a frame
\* requested before the cleanup still fires.
C5_NothingAfterTeardown ==
    [][ ~isRunning =>
          /\ stepsRun' = stepsRun
          /\ rendersRun' = rendersRun
          /\ UNCHANGED << simVars, accumulator, lastFrameTime, renderVars >>
          /\ nextRafId' = nextRafId
          /\ rafQueue' \subseteq rafQueue
          /\ inputs' = inputs
          /\ ~isRunning' ]_vars

\* After the cleanup a requested frame fired and a key event arrived
C5_Witness ==
    /\ ~isRunning
    /\ staleFires > 0
    /\ ignoredKeys > 0
    /\ rafQueue = {}

\* ------------------------------------------------------------------------
\* Properties of stepSimulation
\* ------------------------------------------------------------------------
\* C6: a step that begins dead or won with restart not asserted changes
\* nothing of the simulation: player, enemies, orbs, camera, trail, dead, won
\* and the timers.
C6_FrozenStepChangesNothing ==
    [][ (AboutToStep /\ (dead \/ won) /\ ~inputs.restart)
            => UNCHANGED simVars ]_vars

\* A step ran after the flag was reached
C6_Witness == won /\ frozenSteps > 0 /\ ~inputs.restart

\* What the restart block leaves, spelled out: player at (64, 64), at rest,
\* off the ground, camera at the origin, dead and won cleared
ResetWorld(w) ==
    [ w EXCEPT !.player = [ w.player EXCEPT !.positionX = 64 * PX,
                                             !.positionY = 64 * PX,
                                             !.velocityX = 0,
                                             !.velocityY = 0,
                                             !.isOnGround = FALSE ],
               !.camera = [x |-> 0, y |-> 0],
               !.dead = FALSE,
               !.won = FALSE ]

\* C7: a step with restart asserted resets the player to (64, 64) at rest and
\* off the ground, the camera to (0, 0), clears dead and won, and then
\* processes the rest of the step on the reset state: it is never frozen.
C7_RestartThenProcess ==
    [][ (AboutToStep /\ inputs.restart) =>
          World' = ProcessStep(ResetWorld(World), inputs, createBaselineLevel,
                               viewport, SECOND \div TARGET_FPS) ]_vars

\* A restart step ran on a dead or won session: the player is back next to
\* the start, falling and moving with the keys held, the camera at the origin
C7_Witness ==
    /\ revivals > 0
    /\ ~dead /\ ~won
    /\ player.positionX > 64 * PX /\ player.positionX < 65 * PX
    /\ player.positionY > 64 * PX /\ player.positionY < 65 * PX
    /\ camera = [x |-> 0, y |-> 0]

\* C8: dead and won are latched: each stays true through every step, key
\* event and dev-overlay action, except a step with restart asserted.
C8_DeadAndWonLatched ==
    [][ /\ (dead /\ ~(AboutToStep /\ inputs.restart)) => dead'
        /\ (won /\ ~(AboutToStep /\ inputs.restart)) => won' ]_vars

\* Dead through a frozen step, with flight granted from the overlay and the
\* overlay's restart pressed but no step run since
C8_Witness ==
    /\ dead
    /\ frozenSteps > 0
    /\ player.canFly
    /\ inputs.restart

AnyAlive(list) == \E i \in 1 .. Len(list) : list[i].alive

\* C9 as stated: canFly goes from false to true at most once and is never
\* false again, over steps, key events and dev-overlay actions.
C9_UnlocksOnceForGood ==
    [][ /\ player.canFly => player.canFly'
        /\ flightGains' <= 1 ]_vars

\* C9 amended: no step and no key event clears canFly, only the overlay's
\* revokeFlight and toggleFlight do; canFly turns true in the overlay's
\* grantFlight and toggleFlight, and in a step that leaves no enemy alive,
\* which starts the flight message timer at 2 s (ticked once by that step);
\* no other transition raises the timer.  After a revoke the next such step
\* unlocks again.
C9_UnlockWheneverCleared ==
    [][ /\ (player.canFly /\ ~player.canFly') => (revokeFlight \/ toggleFlight)
        /\ (~player.canFly /\ player.canFly') =>
              \/ grantFlight
              \/ toggleFlight
              \/ /\ AboutToStep
                 /\ ~AnyAlive(enemies')
                 /\ flightMsgTimer' = FLIGHT_MSG_SECONDS * SECOND - SECOND \div TARGET_FPS
        /\ flightMsgTimer' > flightMsgTimer =>
              (AboutToStep /\ ~player.canFly /\ player.canFly') ]_vars

\* Flight unlocked by a step for the second time, after a revoke
C9_Witness ==
    /\ flightGains = 2
    /\ player.canFly
    /\ flightMsgTimer = FLIGHT_MSG_SECONDS * SECOND - SECOND \div TARGET_FPS

\* The enemy loop of the coming step: what it starts from, and what it has
\* made of it when it comes to enemy n
LoopStart(w, level, moved) ==
    [ enemies |-> w.enemies,
      player |-> ClampToWorld(moved, level),
      dead |-> w.dead \/ FellOutOfWorld(moved, level)
                  \/ SpikeHere(ClampToWorld(moved, level), level) ]

RECURSIVE LoopBefore(_, _, _, _, _, _, _)
LoopBefore(acc, i, n, level, cameraX, viewportWidth, fixedDeltaSeconds) ==
    IF i >= n THEN acc
    ELSE LoopBefore(
             EnemyIteration(acc, i, level, cameraX, viewportWidth, fixedDeltaSeconds),
             i + 1, n, level, cameraX, viewportWidth, fixedDeltaSeconds)

ComingLoopBefore(w, n) ==
    LoopBefore(LoopStart(w, createBaselineLevel,
                         MovePlayer(w.player, inputs, createBaselineLevel,
                                    SECOND \div TARGET_FPS)),
               1, n, createBaselineLevel, w.camera.x, viewport.width,
               SECOND \div TARGET_FPS)

\* The stomp case, e being the enemy after its move: the rectangles overlap,
\* velocityY > 50 and positionY - velocityY * dt + height <= enemy top + 6
StompCase(p, e) ==
    /\ p.positionX < e.x + e.width /\ p.positionX + p.width > e.x
    /\ p.positionY < e.y + e.height /\ p.positionY + p.height > e.y
    /\ p.velocityY > 50 * VEL
    /\ p.positionY - (p.velocityY * (PX \div VEL)) \div TARGET_FPS + p.height
           <= e.y + 6 * PX

\* Enemy n is alive and simulated in the coming step and the player stomps it
StompsEnemy(w, acc, n) ==
    /\ acc.enemies[n].alive
    /\ ~( \/ acc.enemies[n].x + acc.enemies[n].width < (w.camera.x - 128) * PX
          \/ acc.enemies[n].x > (w.camera.x + viewport.width + 128) * PX )
    /\ StompCase(acc.player,
                 MoveEnemy(acc.enemies[n], createBaselineLevel, SECOND \div TARGET_FPS))

\* The iteration for enemy n kills it, sets velocityY to -352 and leaves dead
StompOutcome(acc, out, n) ==
    /\ ~out.enemies[n].alive
    /\ out.player.velocityY = -352 * VEL
    /\ out.dead = acc.dead
    /\ ~enemies'[n].alive
    /\ player'.velocityY = -352 * VEL

StompHolds(w, acc, n) ==
    StompsEnemy(w, acc, n) =>
        StompOutcome(acc,
                     EnemyIteration(acc, n, createBaselineLevel, w.camera.x,
                                    viewport.width, SECOND \div TARGET_FPS),
                     n)

StompHoldsInStep(w) ==
    IsFrozen(w) \/ \A n \in 1 .. Len(enemies) : StompHolds(w, ComingLoopBefore(w, n), n)

\* C10: when the player overlaps a live simulated enemy with velocityY > 50
\* and previous bottom positionY - velocityY * dt + height <= enemy top + 6,
\* the enemy is no longer alive, the player's velocityY is 0.55 * jumpBase =
\* -352, and that enemy does not set dead.
C10_Stomp ==
    [][ AboutToStep => StompHoldsInStep(StepRestart(World, inputs)) ]_vars

\* The first enemy stomped: it is gone, the others are not, the player
\* bounces and lives
C10_Witness ==
    /\ ~enemies[1].alive
    /\ enemies[2].alive
    /\ player.velocityY = -352 * VEL
    /\ ~dead

\* The two rectangles share a region of positive area
RectsMeet(p, e) ==
    /\ p.positionX < e.x + e.width /\ e.x < p.positionX + p.width
    /\ p.positionY < e.y + e.height /\ e.y < p.positionY + p.height

\* The overlap that is no stomp, e being the enemy after its move
SideHit(p, e) == RectsMeet(p, e) /\ ~StompCase(p, e)

\* The enemy lies more than 128 px beyond the view [cameraX, cameraX + width]
OutOfView(e, cameraX, viewportWidth) ==
    \/ e.x + e.width < (cameraX - 128) * PX
    \/ e.x > (cameraX + viewportWidth + 128) * PX

\* The coming step is processed: not frozen once its restart block has run
StepProcessed == AboutToStep /\ ~IsFrozen(StepRestart(World, inputs))

\* The camera the enemy loop of the coming step reads
LoopCameraX == StepRestart(World, inputs).camera.x

\* C11 as stated: a processed step in which a live enemy overlaps the player
\* without the stomp condition sets dead; at the end of every processed step
\* no live enemy overlaps the player rectangle unless dead is true.
C11_AnyOverlapKills ==
    [][ StepProcessed =>
          \A n \in 1 .. Len(enemies) :
              (enemies'[n].alive /\ RectsMeet(player', enemies'[n])) => dead' ]_vars

\* Enemy n is alive and in view when the loop of the coming step comes to it,
\* and after its move it overlaps the player without the stomp condition
SideHitBy(w, acc, n) ==
    /\ acc.enemies[n].alive
    /\ ~OutOfView(acc.enemies[n], w.camera.x, viewport.width)
    /\ SideHit(acc.player,
               MoveEnemy(acc.enemies[n], createBaselineLevel, SECOND \div TARGET_FPS))

\* C11 amended: the overlap test is made for the enemies the step simulates,
\* those alive and not more than 128 px out of view.  Such an enemy that
\* overlaps the player after its move without the stomp condition sets dead in
\* that step, and at the end of a processed step no live enemy that was in
\* view in it overlaps the player rectangle unless dead is true.  An enemy
\* out of view is not tested, whatever it overlaps.
C11_OverlapInViewKills ==
    [][ StepProcessed =>
          /\ \A n \in 1 .. Len(enemies) :
                 SideHitBy(StepRestart(World, inputs),
                           ComingLoopBefore(StepRestart(World, inputs), n), n)
                     => dead'
          /\ \A n \in 1 .. Len(enemies) :
                 ( /\ enemies'[n].alive
                   /\ ~OutOfView(enemies[n], LoopCameraX, viewport.width)
                   /\ RectsMeet(player', enemies'[n]) ) => dead'
          /\ \A n \in 1 .. Len(enemies) :
                 (enemies[n].alive /\ OutOfView(enemies[n], LoopCameraX, viewport.width))
                     => enemies'[n] = enemies[n] ]_vars

\* The player ran into the side of the first enemy: dead, the enemy alive
\* and overlapping
C11_Witness ==
    /\ dead
    /\ enemies[1].alive
    /\ RectsMeet(player, enemies[1])
    /\ stepsRun = 260

\* The coming step is a jump from rest on the ground: on-ground true,
\* velocityY 0, flight not unlocked, jump held, run not held
JumpFromRest ==
    /\ StepProcessed /\ ~inputs.restart
    /\ player.isOnGround /\ player.velocityY = 0 /\ ~player.canFly
    /\ inputs.jump /\ ~inputs.run

\* C12 as stated: after that step velocityY is exactly jumpBase, -640 px/s.
C12_JumpLeavesJumpBase ==
    [][ JumpFromRest => player'.velocityY = -640 * VEL ]_vars

\* jumpBase plus one step of gravity: -640 + 2200 / 60 = -603 1/3 px/s
JumpPlusGravity == -640 * VEL + (2200 * VEL) \div TARGET_FPS

\* what the player rises in that step: 1/60 s at that velocity
JumpRise == (JumpPlusGravity * PX) \div (VEL * TARGET_FPS)

\* C12 amended: the jump branch sets velocityY to jumpBase and the gravity
\* of the same step is added to it, so after the step velocityY is
\* -640 + 2200/60 = -603 1/3 px/s and the player has risen by 1/60 of that;
\* when the rise is cut short (a tile overhead, the top of the world)
\* velocityY is 0.  isOnGround is false after the step.
C12_JumpThenGravity ==
    [][ JumpFromRest =>
          /\ IF player'.positionY = player.positionY + JumpRise
             THEN player'.velocityY = JumpPlusGravity
             ELSE player'.velocityY = 0 /\ player'.positionY > player.positionY + JumpRise
          /\ ~player'.isOnGround ]_vars

\* The jump from where the player first landed: one step later it rises at
\* 603 1/3 px/s
C12_Witness ==
    /\ stepsRun = 41
    /\ player.positionX = 64 * PX
    /\ player.velocityY = JumpPlusGravity
    /\ ~player.isOnGround
    /\ inputs.jump /\ ~inputs.run

\* Centre of the player rectangle to the centre of an orb, per axis
OrbDx(p, orb) == p.positionX + p.width \div 2 - orb.x
OrbDy(p, orb) == p.positionY + p.height \div 2 - orb.y

\* The distance between the two centres is exactly / less than 22 px
AtPickupDistance(p, orb) ==
    /\ Abs(OrbDx(p, orb)) <= 22 * PX
    /\ Abs(OrbDy(p, orb)) <= 22 * PX
    /\ OrbDx(p, orb) * OrbDx(p, orb) + OrbDy(p, orb) * OrbDy(p, orb)
           = (22 * PX) * (22 * PX)
CloserThanPickup(p, orb) ==
    /\ Abs(OrbDx(p, orb)) < 22 * PX
    /\ Abs(OrbDy(p, orb)) < 22 * PX
    /\ OrbDx(p, orb) * OrbDx(p, orb) + OrbDy(p, orb) * OrbDy(p, orb)
           < (22 * PX) * (22 * PX)

\* C13: in every processed step, an orb that is uncollected when the orb loop
\* runs is collected by the step exactly when its centre is closer than
\* radius + 12 = 22 px to the player's centre as the step leaves it; at
\* distance exactly 22 it stays uncollected, and so does every orb at a
\* distance of 22 or more.
C13_StrictOrbPickup ==
    [][ StepProcessed =>
          \A i \in 1 .. Len(orbs) :
              ~StepRestart(World, inputs).orbs[i].collected =>
                  /\ orbs'[i].radius + 12 * PX = 22 * PX
                  /\ AtPickupDistance(player', orbs'[i]) => ~orbs'[i].collected
                  /\ orbs'[i].collected <=> CloserThanPickup(player', orbs'[i]) ]_vars

\* A step has left the player's centre exactly 22 px from an orb, which is
\* still uncollected
C13_Witness ==
    /\ stepsRun = 125
    /\ Statement # "while"
    /\ \E i \in 1 .. Len(orbs) :
           AtPickupDistance(player, orbs[i]) /\ ~orbs[i].collected

\* ------------------------------------------------------------------------
\* The grid lookups on their own: rectVsTiles, tileAt, the spike check and
\* the win check, each called once with a rectangle drawn from ProbeRects.
\* The session stands still at the mount.
\* ------------------------------------------------------------------------
\* Tile corners the rectangles are placed at: outside the world on every
\* side, the world's edges, the step of the upper ground strip (columns 7
\* and 8), the ends of the first platform (row 10, columns 20 to 26), a
\* pit (column 30), open ground 1280 px into the level (column 40), the
\* first spikes (column 75) and the flag (column 234)
ProbeCols == { -2, 0, 7, 8, 20, 27, 30, 40, 75, 234, 239, 241 }
ProbeRows == { -2, 0, 10, 11, 13, 14, 15, 17 }
\* Offsets from the corner, down to one grid unit either side of contact
ProbeOffsets ==
    { -28 * PX, -28 * PX + 1, -25 * PX, -20 * PX, -20 * PX + 1, -17 * PX,
      -3 * PX, -1, 0, 1, 3 * PX, 16 * PX }
\* <<width, height>>: the player, an enemy, and a rectangle smaller than a tile
ProbeSizes == { <<20 * PX, 28 * PX>>, <<24 * PX, 28 * PX>>, <<8 * PX, 8 * PX>> }

ProbeRects ==
    { [ call |-> "rect",
        positionX |-> c * TileSizePx * PX + dx,
        positionY |-> r * TileSizePx * PX + dy,
        width |-> size[1], height |-> size[2] ] :
        c \in ProbeCols, r \in ProbeRows,
        dx \in ProbeOffsets, dy \in ProbeOffsets, size \in ProbeSizes }

MountPlay == CHOOSE play \in Plays : play.frames = 0 /\ play.directions = LeftFirst

RectInit ==
    /\ \E w \in { PlayedWorld(MountPlay) } : InitGame(MountPlay, w)
    /\ probe \in ProbeRects
    /\ probed = NoProbe

gameVars == << simVars, loopVars, renderVars, hostVars, histVars >>

\* rectVsTiles(level, x, y, width, height) with the cells its loops read
CallRectVsTiles ==
    /\ probed = NoProbe
    /\ probed' = [ call |-> "rectVsTiles",
                   result |-> rectVsTiles(createBaselineLevel, probe.positionX,
                                  probe.positionY, probe.width, probe.height),
                   cells |-> ScannedCells(createBaselineLevel, probe.positionX,
                                 probe.positionY, probe.width, probe.height) ]
    /\ UNCHANGED << gameVars, probe >>

\* tileAt(px, py) at the rectangle's corner
CallTileAt ==
    /\ probed = NoProbe
    /\ probed' = [ call |-> "tileAt",
                   result |-> tileAt(createBaselineLevel, probe.positionX, probe.positionY),
                   cells |-> TileAtCells(createBaselineLevel, probe.positionX,
                                 probe.positionY) ]
    /\ UNCHANGED << gameVars, probe >>

\* The spike check with the rectangle as the player
CallSpikeCheck ==
    /\ probed = NoProbe
    /\ probed' = [ call |-> "spike",
                   result |-> SpikeHere(probe, createBaselineLevel),
                   cells |-> SpikeCells(probe, createBaselineLevel) ]
    /\ UNCHANGED << gameVars, probe >>

\* The win check with the rectangle as the player
CallWinCheck ==
    /\ probed = NoProbe
    /\ probed' = [ call |-> "win",
                   result |-> TouchesFlag(probe, createBaselineLevel),
                   cells |-> FlagCells(probe, createBaselineLevel) ]
    /\ UNCHANGED << gameVars, probe >>

\* createBaselineLevel().tiles[row], row being the grid row of the
\* rectangle's corner
CallCreateLevel ==
    /\ probed = NoProbe
    /\ TileAtCells(createBaselineLevel, 0, probe.positionY) # {}
    /\ probed' = [ call |-> "createBaselineLevel",
                   row |-> FloorDiv(probe.positionY, createBaselineLevel.tileSize),
                   result |-> [ c \in 0 .. NumCols(createBaselineLevel) - 1 |->
                                  Tiles(createBaselineLevel,
                                        FloorDiv(probe.positionY,
                                                 createBaselineLevel.tileSize), c) ],
                   cells |-> {} ]
    /\ UNCHANGED << gameVars, probe >>

\* Camera x the follow is called with, whole px, and the player's velocityX
ProbeCameraXs == { 0, 150, 1359 }
ProbeSpeeds == { 0, 19 * VEL, 100 * VEL, TopSpeed, -TopSpeed }

\* The camera follow of a step, the player being the player-sized rectangle
\* standing on the ground row 14 with one of ProbeSpeeds
CallFollowCamera(cameraX, velocityX, size) ==
    /\ probed = NoProbe
    /\ probe.width = InitialPlayer.width
    /\ probe.positionY + probe.height = (LevelRows - 2) * TileSizePx * PX
    /\ probed' = [ call |-> "camera",
                   cameraX |-> cameraX, velocityX |-> velocityX, viewport |-> size,
                   result |-> FollowCamera([x |-> cameraX, y |-> 0],
                                  [ InitialPlayer EXCEPT
                                      !.positionX = probe.positionX,
                                      !.positionY = probe.positionY,
                                      !.velocityX = velocityX ],
                                  size),
                   cells |-> {} ]
    /\ UNCHANGED << gameVars, probe >>

RectNext ==
    \/ \E cameraX \in ProbeCameraXs, velocityX \in ProbeSpeeds, size \in Viewports :
            CallFollowCamera(cameraX, velocityX, size)
    \/ CallRectVsTiles
    \/ CallTileAt
    \/ CallSpikeCheck
    \/ CallWinCheck
    \/ CallCreateLevel

RectSpec == RectInit /\ [][RectNext]_vars

\* ------------------------------------------------------------------------
\* The enemies on patrol: the session left alone in a window as wide as the
\* world, which has every enemy in view from the spawn.  No key is touched;
\* every frame callback comes one step after the one before and its render
\* measures 8 ms.
\* ------------------------------------------------------------------------
MaxPatrolFrames == 320

PatrolViewport == [width |-> 7680, height |-> 4320]

PatrolInit ==
    /\ \E play \in { p \in Plays : p.frames = 0 } :
            InitGameIn(play, PlayedWorld(play), PatrolViewport, MaxPatrolFrames)
    /\ probe = NoProbe
    /\ probed = NoProbe

PatrolNext ==
    \/ \E id \in rafQueue : FrameCallback(id, FRAME_DURATION_MS)
    \/ SimulationStep
    \/ LoopExit
    \/ RenderFrame(8)
    \/ Reschedule

PatrolSpec == PatrolInit /\ [][PatrolNext]_vars

\* The grid's columns / rows whose tiles the rectangle overlaps with
\* positive length
ColsUnder(r) ==
    { c \in 0 .. LevelCols - 1 :
        /\ r.positionX < (c + 1) * TileSizePx * PX
        /\ r.positionX + r.width > c * TileSizePx * PX }
RowsUnder(r) ==
    { row \in 0 .. LevelRows - 1 :
        /\ r.positionY < (row + 1) * TileSizePx * PX
        /\ r.positionY + r.height > row * TileSizePx * PX }

\* The GROUND and BLOCK tiles the rectangle overlaps with positive area
SolidUnder(r) ==
    { cell \in RowsUnder(r) \X ColsUnder(r) :
        TileCode(cell[1], cell[2]) \in { T_GROUND, T_BLOCK } }

\* The SPIKE and FLAG tiles the rectangle overlaps with positive area
HazardUnder(r) ==
    { cell \in RowsUnder(r) \X ColsUnder(r) :
        TileCode(cell[1], cell[2]) \in { T_SPIKE, T_FLAG } }

\* C14: for every rectangle that overlaps no GROUND or BLOCK tile with
\* positive area, rectVsTiles returns collided = false and both corrections
\* 0, whatever SPIKE and FLAG tiles the rectangle lies on.
C14_NoSolidNoCollision ==
    (probed.call = "rectVsTiles" /\ SolidUnder(probe) = {})
        => probed.result = [ collided |-> FALSE, correctionX |-> 0, correctionY |-> 0 ]

\* rectVsTiles was called with a rectangle that lies on a spike tile and
\* touches the ground below it edge to edge, and reported no collision
C14_Witness ==
    /\ probed.call = "rectVsTiles"
    /\ \E cell \in HazardUnder(probe) : TileCode(cell[1], cell[2]) = T_SPIKE
    /\ probe.positionY + probe.height = (LevelRows - 1) * TileSizePx * PX
    /\ SolidUnder(probe) = {}
    /\ ~probed.result.collided

\* The length the rectangle and the tile share on each axis
SharedX(r, cell) ==
    Min(r.positionX + r.width, (cell[2] + 1) * TileSizePx * PX)
        - Max(r.positionX, cell[2] * TileSizePx * PX)
SharedY(r, cell) ==
    Min(r.positionY + r.height, (cell[1] + 1) * TileSizePx * PX)
        - Max(r.positionY, cell[1] * TileSizePx * PX)

\* Away from the tile's centre: negative when the rectangle's centre is
\* below the tile's centre coordinate, positive otherwise (doubled to stay
\* whole)
AwayX(r, cell, amount) ==
    IF 2 * r.positionX + r.width < (2 * cell[2] + 1) * TileSizePx * PX
    THEN -amount ELSE amount
AwayY(r, cell, amount) ==
    IF 2 * r.positionY + r.height < (2 * cell[1] + 1) * TileSizePx * PX
    THEN -amount ELSE amount

\* What C15 says of a rectangle that overlaps the one solid tile `cell`
OneTileResolved(r, cell, result) ==
    /\ result.collided
    /\ SharedX(r, cell) < SharedY(r, cell) =>
           /\ result.correctionX = AwayX(r, cell, SharedX(r, cell))
           /\ result.correctionY = 0
    /\ SharedY(r, cell) < SharedX(r, cell) =>
           /\ result.correctionY = AwayY(r, cell, SharedY(r, cell))
           /\ result.correctionX = 0
    /\ SharedX(r, cell) = SharedY(r, cell) =>
           \/ /\ result.correctionX = AwayX(r, cell, SharedX(r, cell))
              /\ result.correctionY = 0
           \/ /\ result.correctionY = AwayY(r, cell, SharedY(r, cell))
              /\ result.correctionX = 0

\* C15: for every rectangle that overlaps exactly one solid tile,
\* rectVsTiles reports collided = true and a correction on the axis with the
\* smaller overlap, of that overlap's magnitude, negative when the
\* rectangle's centre is below the tile's centre coordinate on that axis and
\* positive otherwise; the other axis's correction is 0.
C15_SingleTileMinimalAxis ==
    (probed.call = "rectVsTiles" /\ Cardinality(SolidUnder(probe)) = 1)
        => \A cell \in SolidUnder(probe) : OneTileResolved(probe, cell, probed.result)

\* rectVsTiles was called with the player's rectangle 3 px into the left
\* end of the first platform and pushed it back out by 3 px
C15_Witness ==
    /\ probed.call = "rectVsTiles"
    /\ SolidUnder(probe) = { <<10, 20>> }
    /\ probe.width = 20 * PX
    /\ SharedX(probe, <<10, 20>>) = 3 * PX
    /\ SharedY(probe, <<10, 20>>) > 3 * PX
    /\ probed.result.correctionX = -3 * PX
    /\ probed.result.correctionY = 0

\* C16 as stated: rectVsTiles never returns both correctionX # 0 and
\* correctionY # 0.
C16_OneAxisPerCall ==
    probed.call = "rectVsTiles"
        => ~(probed.result.correctionX # 0 /\ probed.result.correctionY # 0)

\* Every cell <<row, column>> is inside the grid
InGrid(cells) ==
    \A cell \in cells :
        /\ 0 <= cell[1] /\ cell[1] < LevelRows
        /\ 0 <= cell[2] /\ cell[2] < LevelCols

\* The point is outside the grid's area
OutsideWorld(px, py) ==
    \/ px < 0 \/ px >= LevelCols * TileSizePx * PX
    \/ py < 0 \/ py >= LevelRows * TileSizePx * PX

\* C18: whatever rectangle they are called with, inside the world or partly
\* or wholly outside, rectVsTiles, tileAt, the spike check and the win check
\* read only cells with 0 <= row < rows and 0 <= col < cols, and tileAt
\* returns EMPTY for every point outside the grid.
C18_LookupsStayInGrid ==
    probed.call # "none" =>
        /\ InGrid(probed.cells)
        /\ (probed.call = "tileAt" /\ OutsideWorld(probe.positionX, probe.positionY))
               => (probed.result = T_EMPTY /\ probed.cells = {})

\* rectVsTiles was called with a rectangle that sticks out of the world's
\* left and top edges and read the corner cell only
C18_Witness ==
    /\ probed.call = "rectVsTiles"
    /\ probe.positionX < 0 /\ probe.positionX + probe.width > 0
    /\ probe.positionY < 0 /\ probe.positionY + probe.height > 0
    /\ probed.cells = { <<0, 0>> }

\* The player of the coming step as the X pass finds it (input, jump and
\* gravity applied) and as the X pass leaves it (positionY still the old one)
BeforeXPass(w, in) ==
    ApplyGravity(JumpOrFlight(HorizontalInput(w.player, in, SECOND \div TARGET_FPS),
                              in, SECOND \div TARGET_FPS),
                 SECOND \div TARGET_FPS)
AfterXPass(w, in) ==
    IntegrateX(BeforeXPass(w, in), createBaselineLevel, SECOND \div TARGET_FPS)

\* The step moves the player by less than a tile on each axis
SmallDisplacement(p) ==
    /\ Abs(VelTimes(p.velocityX, SECOND \div TARGET_FPS)) < TileSizePx * PX
    /\ Abs(VelTimes(p.velocityY, SECOND \div TARGET_FPS)) < TileSizePx * PX

\* C17 as stated: in every processed step that moves the player by less than
\* a tile, the rectangle at (positionX, old positionY) after the X pass and
\* the rectangle at (positionX, positionY) after the Y pass, which is the one
\* the step ends with, overlap no solid tile.
C17_PassesLeaveNoOverlap ==
    [][ ( /\ StepProcessed
          /\ SmallDisplacement(BeforeXPass(StepRestart(World, inputs), inputs)) )
        => /\ SolidUnder(AfterXPass(StepRestart(World, inputs), inputs)) = {}
           /\ SolidUnder(player') = {} ]_vars

\* C19 as stated: each of the six overlay actions is idempotent: invoking
\* it again on the state it has just left changes nothing.
C19_DevActionsIdempotent ==
    [][ /\ toggleFlight => ToggleFlightOf(DevState') = DevState'
        /\ grantFlight => GrantFlightOf(DevState') = DevState'
        /\ revokeFlight => RevokeFlightOf(DevState') = DevState'
        /\ killAllEnemies => KillAllEnemiesOf(DevState') = DevState'
        /\ collectAllOrbs => CollectAllOrbsOf(DevState') = DevState'
        /\ devRestart => RestartOf(DevState') = DevState' ]_vars

\* The simulation state outside what the overlay writes
BesideDev == << camera, trail, dead, won, flightMsgTimer, footstepTimer >>

\* C19 amended: grantFlight, revokeFlight, killAllEnemies, collectAllOrbs and
\* restart are idempotent; toggleFlight is not: invoking it again restores
\* the state before the first invocation.  None of the six writes anything
\* but canFly, the alive flags, the collected flags or the restart intent.
C19_DevActionsRepeat ==
    [][ /\ toggleFlight =>
              /\ ToggleFlightOf(DevState') = DevState
              /\ ToggleFlightOf(DevState') # DevState'
        /\ grantFlight => GrantFlightOf(DevState') = DevState'
        /\ revokeFlight => RevokeFlightOf(DevState') = DevState'
        /\ killAllEnemies => KillAllEnemiesOf(DevState') = DevState'
        /\ collectAllOrbs => CollectAllOrbsOf(DevState') = DevState'
        /\ devRestart => RestartOf(DevState') = DevState'
        /\ ( toggleFlight \/ grantFlight \/ revokeFlight \/ killAllEnemies
               \/ collectAllOrbs \/ devRestart )
              => /\ BesideDev' = BesideDev
                 /\ player' = [ player EXCEPT !.canFly = player'.canFly ] ]_vars

\* Two events after the mount every enemy is dead and nothing else has
\* changed: killAllEnemies invoked twice in a row leaves this state
C19_Witness ==
    /\ budget = MaxEvents - 2
    /\ stepsRun = 0 /\ rendersRun = 0
    /\ \A n \in 1 .. Len(enemies) : ~enemies[n].alive
    /\ enemies = KillAll(InitialEnemies(LeftFirst))
    /\ inputs = InitialInputs
    /\ ~player.canFly
    /\ \A i \in 1 .. Len(orbs) : ~orbs[i].collected

\* C20 as stated, cameraX being the camera at the time of the step: a live
\* enemy more than 128 px outside [cameraX, cameraX + viewportWidth] when a
\* step begins has the same position, velocity, phase and alive flag after it.
C20_CulledAtStepTime ==
    [][ AboutToStep =>
          \A n \in 1 .. Len(enemies) :
              (enemies[n].alive /\ OutOfView(enemies[n], camera.x, viewport.width))
                  => enemies'[n] = enemies[n] ]_vars

\* Iteration n of the coming step's enemy loop, on what the loop has made of
\* the world when it comes to enemy n
ComingIteration(w, n) ==
    EnemyIteration(ComingLoopBefore(w, n), n, createBaselineLevel, w.camera.x,
                   viewport.width, SECOND \div TARGET_FPS)

\* C20 amended: the camera the skip test reads is the camera after the
\* step's restart block: the camera the previous step left, or 0 in a step
\* that runs with the restart intent set.  A live enemy more than 128 px
\* outside [that camera x, that camera x + viewportWidth] is left unchanged by
\* the step, and its iteration of the loop changes neither the player nor the
\* dead flag: it takes no part in the player-overlap test.
C20_CulledAtLoopTime ==
    [][ AboutToStep =>
          \A n \in 1 .. Len(enemies) :
              (enemies[n].alive /\ OutOfView(enemies[n], LoopCameraX, viewport.width))
                  => /\ enemies'[n].x = enemies[n].x
                     /\ enemies'[n].y = enemies[n].y
                     /\ enemies'[n].velocityX = enemies[n].velocityX
                     /\ enemies'[n].velocityY = enemies[n].velocityY
                     /\ enemies'[n].phase = enemies[n].phase
                     /\ enemies'[n].alive
                     /\ StepProcessed =>
                            ComingIteration(StepRestart(World, inputs), n)
                                = ComingLoopBefore(StepRestart(World, inputs), n) ]_vars

\* A step has left the player overlapping the first enemy, which is alive,
\* beyond the right edge of the narrow view and has not been tested: the
\* player is not dead
C20_Witness ==
    /\ stepsRun = 260
    /\ viewport.width = 200
    /\ enemies[1].alive
    /\ enemies[1].x > (camera.x + viewport.width) * PX
    /\ RectsMeet(player, enemies[1])
    /\ ~dead

\* C21: enemies and orbs are only flagged.  In every state the two
\* collections have their initial length and order (enemy n is the n-th
\* spawned, orb i the i-th placed), and no transition, be it a step, a restart,
\* a key event or an overlay action, turns an alive flag from false to true
\* or a collected flag from true to false.
C21_OnlyFlagged ==
    [][ /\ Len(enemies') = Len(enemies) /\ Len(enemies) = Len(EnemySpawns)
        /\ Len(orbs') = Len(orbs)
        /\ \A n \in 1 .. Len(enemies) :
               /\ enemies'[n].type = enemies[n].type
               /\ enemies[n].type = EnemySpawns[n][3]
               /\ ~enemies[n].alive => ~enemies'[n].alive
        /\ \A i \in 1 .. Len(orbs) :
               /\ orbs'[i].x = orbs[i].x
               /\ orbs[i].collected => orbs'[i].collected ]_vars

\* A restart step has run after killAllEnemies, late in a play: the player
\* is back at the spawn, every enemy is still dead and the orbs collected on
\* the way are still collected
C21_Witness ==
    /\ stepsRun = 340
    /\ inputs.restart
    /\ player.positionX < 96 * PX
    /\ camera.x = 0
    /\ Len(enemies) = 6
    /\ \A n \in 1 .. Len(enemies) : ~enemies[n].alive
    /\ \E i \in 1 .. Len(orbs) : orbs[i].collected

\* C22: in the level createBaselineLevel returns, the bottom row (row 15) is
\* EMPTY at column 30 and GROUND at column 31, and a column x of that row is
\* EMPTY exactly when (x mod 37 = 30 or x mod 53 = 45) and 15 < x < 220, and
\* GROUND otherwise.
C22_BottomRowPits ==
    (probed.call = "createBaselineLevel" /\ probed.row = 15)
        => /\ probed.result[30] = T_EMPTY
           /\ probed.result[31] = T_GROUND
           /\ DOMAIN probed.result = 0 .. 239
           /\ \A x \in 0 .. 239 :
                  probed.result[x] =
                      IF (x % 37 = 30 \/ x % 53 = 45) /\ 15 < x /\ x < 220
                      THEN T_EMPTY ELSE T_GROUND

\* The bottom row of the level was read: a pit at columns 30 and 45 (one of
\* each residue), ground at 31 and at both ends
C22_Witness ==
    /\ probed.call = "createBaselineLevel"
    /\ probed.row = 15
    /\ probed.result[30] = T_EMPTY /\ probed.result[45] = T_EMPTY
    /\ probed.result[31] = T_GROUND
    /\ probed.result[0] = T_GROUND /\ probed.result[239] = T_GROUND

\* 4 * desiredCamX in grid units: desiredCamX = positionX - viewportWidth / 2
\* + 120 * speedRatio, speedRatio being velocityX / 384 clamped to [-1, 1], and
\* 0 under 20 px/s  (4 * 360 * 120 / (384 * 6) = 75 per velocity unit)
FourDesiredCamX(positionX, velocityX, viewportWidth) ==
    4 * positionX - 2 * PX * viewportWidth
        + 75 * (IF Abs(velocityX) < 20 * VEL THEN 0
                ELSE Max(-384 * VEL, Min(384 * VEL, velocityX)))

\* max(0, floor(camX + 0.15 * (desiredCamX - camX))), camX in whole px
SmoothedCamX(camX, fourDesired) ==
    Max(0, FloorDiv(17 * 4 * PX * camX + 3 * fourDesired, 20 * 4 * PX))

\* C23: the camera follow leaves camera x = max(0, floor(camX + 0.15 *
\* (desiredCamX - camX))); with desiredCamX = 1000 and camX = 0 that is 150.
C23_CameraSmoothing ==
    probed.call = "camera" =>
        /\ probed.result.x =
               SmoothedCamX(probed.cameraX,
                   FourDesiredCamX(probe.positionX, probed.velocityX,
                                   probed.viewport.width))
        /\ ( /\ probed.cameraX = 0
             /\ FourDesiredCamX(probe.positionX, probed.velocityX,
                                 probed.viewport.width) = 4 * 1000 * PX )
               => probed.result.x = 150

\* The follow was called with the camera at 0 and the player running at top
\* speed at x = 1280 in the 800 px view: desiredCamX = 1280 - 400 + 120 = 1000,
\* and the camera went to 150
C23_Witness ==
    /\ probed.call = "camera"
    /\ probed.cameraX = 0
    /\ probe.positionX = 1280 * PX
    /\ probed.velocityX = 384 * VEL
    /\ probed.viewport.width = 800
    /\ FourDesiredCamX(probe.positionX, probed.velocityX, probed.viewport.width)
           = 4 * 1000 * PX
    /\ probed.result.x = 150

\* C24: a key-down that reaches the handler calls onExitToMenu exactly when
\* its code is Enter or Space, won is true at the moment of the event and a
\* callback was supplied, and then once; nothing else calls it, so no call
\* is made while won is false, a restart step having cleared won included.
C24_ExitOnlyWhileWon ==
    [][ /\ \A code \in Codes :
               (handleKeyDown(code) /\ listening) =>
                   IF code \in {"Enter", "Space"} /\ won /\ hasExitCallback
                   THEN exitCalls' = exitCalls + 1
                   ELSE exitCalls' = exitCalls
        /\ exitCalls' # exitCalls =>
               /\ won
               /\ handleKeyDown("Enter") \/ handleKeyDown("Space") ]_vars

\* The player has won and a confirmation key has called onExitToMenu once
C24_Witness ==
    /\ won
    /\ exitCalls = 1
    /\ listening

\* The player of the coming step as its two collision passes leave it
ComingMove ==
    MovePlayer(StepRestart(World, inputs).player, inputs, createBaselineLevel,
               SECOND \div TARGET_FPS)

\* C26: at the end of every processed step 0 <= positionX <= worldWidth -
\* width and positionY >= 0; where the collision passes left the player
\* beyond the left, right or top boundary it is on the boundary with that
\* axis's velocity 0; and when the Y integration left positionY above
\* worldHeight + 200 (16 * 32 + 200 = 712), dead is true after the step.
C26_InsideWorld ==
    [][ StepProcessed =>
          /\ 0 <= player'.positionX
          /\ player'.positionX <= 240 * 32 * PX - player'.width
          /\ player'.positionY >= 0
          /\ ComingMove.positionX < 0 =>
                 (player'.positionX = 0 /\ player'.velocityX = 0)
          /\ ComingMove.positionX > 240 * 32 * PX - ComingMove.width =>
                 ( /\ player'.positionX = 240 * 32 * PX - player'.width
                   /\ player'.velocityX = 0 )
          /\ ComingMove.positionY < 0 =>
                 (player'.positionY = 0 /\ player'.velocityY = 0)
          /\ ComingMove.positionY > 712 * PX => dead' ]_vars

\* Running left from the spawn, the player has just been stopped at the
\* world's left edge
C26_Witness ==
    /\ stepsRun = 17
    /\ inputs.moveLeft /\ inputs.run
    /\ player.positionX = 0
    /\ player.velocityX = 0
    /\ ~dead

\* resultY of the coming step: rectVsTiles at the X pass's positionX and
\* nextY = positionY + velocityY * dt
ComingResultY(afterX) ==
    rectVsTiles(createBaselineLevel, afterX.positionX,
                afterX.positionY + VelTimes(afterX.velocityY, SECOND \div TARGET_FPS),
                afterX.width, afterX.height)

\* What C27 says of a step, resultY being the result of its Y pass
GroundRederived(resultY, after) ==
    /\ after.isOnGround => (resultY.collided /\ resultY.correctionY < 0)
    /\ (~resultY.collided \/ resultY.correctionY = 0) => ~after.isOnGround
    /\ (resultY.collided /\ resultY.correctionY # 0) => after.velocityY = 0

\* C27: at the end of a processed step isOnGround is true only if the Y
\* pass of that step collided with a negative (upward) Y correction; a step
\* whose Y pass has no Y correction ends with isOnGround false; and a Y
\* collision with a non-zero Y correction ends with velocityY = 0.
C27_GroundRederived ==
    [][ StepProcessed =>
          GroundRederived(
              ComingResultY(AfterXPass(StepRestart(World, inputs), inputs)),
              player') ]_vars

\* A step has just set the standing player back onto the ground it rests
\* on: on the ground, velocityY 0, feet on top of row 14
C27_Witness ==
    /\ stepsRun = 41
    /\ ~inputs.jump
    /\ player.isOnGround
    /\ player.velocityY = 0
    /\ player.positionY + player.height = 14 * 32 * PX

\* The tile at the feet row, or at the row directly above it, in the column
\* of the player's horizontal centre is SPIKE
SpikeAtFeet(p) ==
    \E row \in { FloorDiv(p.positionY + p.height - 1 * PX, TileSizePx * PX),
                 FloorDiv(p.positionY + p.height - 1 * PX, TileSizePx * PX) - 1 } :
        /\ InGrid({ << row, FloorDiv(p.positionX + p.width \div 2, TileSizePx * PX) >> })
        /\ TileCode(row, FloorDiv(p.positionX + p.width \div 2, TileSizePx * PX)) = T_SPIKE

\* C28: at the end of a processed step, if the tile in the player's
\* horizontal-centre column at the feet row (row of positionY + height - 1)
\* or at the row directly above it is SPIKE, dead is true; and a step that
\* sets dead with no spike in those two cells found the player below the fall
\* line or overlapping a live enemy: a spike elsewhere does not set dead.
C28_SpikeAtFeetKills ==
    [][ StepProcessed =>
          /\ SpikeAtFeet(player') => dead'
          /\ (dead' /\ ~SpikeAtFeet(player'))
                => \/ FellOutOfWorld(player', createBaselineLevel)
                   \/ \E n \in 1 .. Len(enemies) :
                          enemies'[n].alive /\ RectsMeet(player', enemies'[n]) ]_vars

\* With every enemy dead, a step brought the player's centre into column 75,
\* feet in row 14, where the first spike is, and set dead
C28_Witness ==
    /\ stepsRun = 371
    /\ dead
    /\ SpikeAtFeet(player)
    /\ FloorDiv(player.positionX + player.width \div 2, TileSizePx * PX) = 75
    /\ FloorDiv(player.positionY + player.height - 1 * PX, TileSizePx * PX) = 14
    /\ \A n \in 1 .. Len(enemies) : ~enemies[n].alive

\* The tile that contains the player's centre point is FLAG
CentreOnFlag(p) ==
    /\ InGrid({ << FloorDiv(p.positionY + p.height \div 2, TileSizePx * PX),
                   FloorDiv(p.positionX + p.width \div 2, TileSizePx * PX) >> })
    /\ TileCode(FloorDiv(p.positionY + p.height \div 2, TileSizePx * PX),
                FloorDiv(p.positionX + p.width \div 2, TileSizePx * PX)) = T_FLAG

\* C29: a processed step ends with won true exactly when the tile containing
\* the player's centre point, after movement and clamping, is FLAG; and from
\* then on won stays and every step without restart changes nothing of the
\* simulation.
C29_WinAtFlagThenFrozen ==
    [][ /\ StepProcessed => (won' <=> CentreOnFlag(player'))
        /\ (AboutToStep /\ won /\ ~inputs.restart)
              => (won' /\ CentreOnFlag(player') /\ UNCHANGED simVars)
        /\ (won /\ ~AboutToStep) => won' ]_vars

\* The step that brought the player's centre into the flag column set won,
\* and a step without restart ran after it
C29_Witness ==
    /\ won /\ ~dead
    /\ stepsRun >= 1167
    /\ frozenSteps >= 1
    /\ FloorDiv(player.positionX + player.width \div 2, TileSizePx * PX) = LevelCols - 6
    /\ CentreOnFlag(player)

\* The newest (at most 20) entries of the sequence, in order
NewestTwenty(seq) ==
    IF Len(seq) > 20 THEN SubSeq(seq, Len(seq) - 19, Len(seq)) ELSE seq

\* C30: the trail never holds more than 20 entries; each processed step
\* appends the player's position at its end as the newest entry and, when
\* that makes 21, drops the oldest; nothing else changes the trail, so it is
\* always the positions of the most recent (at most 20) processed steps in
\* order.
C30_TrailOfTwenty ==
    /\ [](Len(trail) <= 20)
    /\ [][ /\ StepProcessed =>
                trail' = NewestTwenty(Append(trail, [x |-> player'.positionX,
                                                     y |-> player'.positionY]))
           /\ ~StepProcessed => trail' = trail ]_vars

\* A full trail took one more position: 20 entries, the newest the player's
\* position after the step, the oldest of before gone
C30_Witness ==
    /\ stepsRun = 25
    /\ ~dead /\ ~won
    /\ Len(trail) = 20
    /\ trail[20] = [x |-> player.positionX, y |-> player.positionY]
    /\ trail[19] # trail[20]
    /\ trail[1] # [x |-> InitialPlayer.positionX, y |-> InitialPlayer.positionY]

\* Some visual parameter is lower, or higher, in the next state
VisualsLowered ==
    \/ visuals'.streakCount < visuals.streakCount
    \/ visuals'.orbShadowBlur < visuals.orbShadowBlur
    \/ visuals'.enemyShadowBlur < visuals.enemyShadowBlur
VisualsRaised ==
    \/ visuals'.streakCount > visuals.streakCount
    \/ visuals'.orbShadowBlur > visuals.orbShadowBlur
    \/ visuals'.enemyShadowBlur > visuals.enemyShadowBlur

\* C31: the visual quality parameters stay within fixed bounds,
\* 10 <= streakCount <= 30, 6 <= orbShadowBlur <= 15 and
\* 8 <= enemyShadowBlur <= 20; they are lowered only by a render whose
\* draw-time average is above 10 ms, raised only by one whose average is
\* below 6 ms, and unchanged otherwise.
C31_VisualsWithinBounds ==
    /\ [](/\ 10 <= visuals.streakCount /\ visuals.streakCount <= 30
          /\ 6 <= visuals.orbShadowBlur /\ visuals.orbShadowBlur <= 15
          /\ 8 <= visuals.enemyShadowBlur /\ visuals.enemyShadowBlur <= 20)
    /\ [][ /\ VisualsLowered
                => (Statement = "renderFrame" /\ drawTimeAvg'.num > 10 * drawTimeAvg'.den)
           /\ VisualsRaised
                => (Statement = "renderFrame" /\ drawTimeAvg'.num < 6 * drawTimeAvg'.den)
           /\ (/\ 6 * drawTimeAvg'.den <= drawTimeAvg'.num
               /\ drawTimeAvg'.num <= 10 * drawTimeAvg'.den)
                => visuals' = visuals ]_vars

\* A render with the average still above 10 ms found every parameter at its
\* lower bound and left it there
C31_Witness ==
    /\ rendersRun = 41
    /\ drawTimeAvg.num > 10 * drawTimeAvg.den
    /\ visuals = [ streakCount |-> 10, orbShadowBlur |-> 6, enemyShadowBlur |-> 8 ]

\* C32 as stated: an intent set by a key-down is applied by a simulation step
\* that runs no later than one fixed step after the event, whatever the
\* timing of the frame callbacks.
C32_LatencyWithinOneStep ==
    keyWait.latency <= FRAME_DURATION_MS

\* C32: the first simulation step that runs after a key-down reads the
\* intent it set, and it runs less than one fixed step plus the interval of
\* the frame callback that runs it after the event.
C32_LatencyWithinStepAndFrame ==
    [][ (AboutToStep /\ keyWait.since >= 0) =>
          /\ World' = stepSimulation(World, inputs, createBaselineLevel, viewport,
                                      SECOND \div TARGET_FPS)
          /\ keyWait'.since = -1
          /\ keyWait'.latency = elapsedTotal - keyWait.since
          /\ keyWait'.latency < FRAME_DURATION_MS + keyWait.delta ]_vars

\* A key-down waited through a callback that ran no step and was read by the
\* step of the next one, more than one fixed step after the event
C32_Witness ==
    /\ keyWait.latency > FRAME_DURATION_MS
    /\ keyWait.latency = 1200
    /\ keyWait.delta = 600
    /\ keyWait.since = -1
    /\ inputs # InitialInputs

\* C33: the camera is clamped to >= 0 on both axes and holds whole numbers:
\* camera.x and camera.y are natural numbers after any sequence of steps and
\* restarts, and a processed step leaves in camera.y the whole part of
\* positionY - viewportHeight / 2, or 0 when that is negative.
C33_CameraClamped ==
    /\ [](camera.x \in Nat /\ camera.y \in Nat)
    /\ [][ StepProcessed =>
             IF 2 * player'.positionY < PX * viewport.height
             THEN camera'.y = 0
             ELSE /\ 2 * PX * camera'.y <= 2 * player'.positionY - PX * viewport.height
                  /\ 2 * player'.positionY - PX * viewport.height
                        < 2 * PX * (camera'.y + 1) ]_vars

\* The player is above the middle of the view, far from the start, and the
\* step left camera.y at 0
C33_Witness ==
    /\ stepsRun = 24
    /\ ~dead /\ ~won
    /\ camera.y = 0
    /\ camera.x > 0
    /\ 2 * player.positionY < PX * viewport.height

\* The coming step simulates the enemy: it is alive and in view
Simulated(e) ==
    e.alive /\ ~OutOfView(e, LoopCameraX, viewport.width)

\* The tile at the point one px beyond the edge of `after` that leads in the
\* direction `before` moves in, one px below its feet, is not solid
LedgeAhead(before, after) ==
    LET px == after.x + (IF before.velocityX > 0 THEN after.width + PX ELSE -PX)
        py == after.y + after.height + PX
    IN  \/ OutsideWorld(px, py)
        \/ ~isSolidTile(TileCode(FloorDiv(py, TileSizePx * PX),
                                  FloorDiv(px, TileSizePx * PX)))

\* C34: in every step of a simulated enemy, if the tile one unit beyond its
\* leading edge and one unit below its feet is not solid, the enemy ends the
\* step moving in the direction opposite to the one it began the step in.
C34_TurnsAtLedge ==
    [][ StepProcessed =>
          \A n \in 1 .. Len(enemies) :
              (Simulated(enemies[n]) /\ LedgeAhead(enemies[n], enemies'[n]))
                  => enemies'[n].velocityX = -enemies[n].velocityX ]_vars

\* The second enemy, walking on the ground with no fall under way, has just
\* turned around at the end of its stretch of ground
C34_Witness ==
    /\ stepsRun > 100
    /\ enemies[2].alive
    /\ enemies[2].velocityY = 0
    /\ enemies[2].y + enemies[2].height = (LevelRows - 2) * TileSizePx * PX
    /\ enemies[2].velocityX < 0
    /\ enemies[2].x + enemies[2].width + PX >= 96 * TileSizePx * PX

\* C35: a step with restart asserted resets only the player's kinematics, the
\* camera and dead / won: collected orbs stay collected and where they are,
\* dead enemies stay dead, canFly stays set, the trail keeps its entries (the
\* step appends to it as any processed step does), and no enemy goes back to
\* its spawn: a dead one stays where it is, a live one moves by at most its
\* step of 70 px/s sideways.
C35_RestartKeepsTheRest ==
    [][ (AboutToStep /\ inputs.restart) =>
          /\ \A i \in 1 .. Len(orbs) :
                 /\ orbs[i].collected => orbs'[i].collected
                 /\ orbs'[i].x = orbs[i].x /\ orbs'[i].y = orbs[i].y
          /\ \A n \in 1 .. Len(enemies) :
                 /\ ~enemies[n].alive => enemies'[n] = enemies[n]
                 /\ Abs(enemies'[n].x - enemies[n].x)
                        <= (70 * PX) \div TARGET_FPS
          /\ player.canFly => player'.canFly
          /\ trail' = NewestTwenty(Append(trail, [x |-> player'.positionX,
                                                  y |-> player'.positionY])) ]_vars

\* A restart step ran in front of the first enemy: the player is back at the
\* spawn, the enemy alive on the floor of its notch, below its spawn height,
\* and the trail still holds the positions of the run
C35_Witness ==
    /\ stepsRun = 260
    /\ inputs.restart
    /\ revivals = 0
    /\ player.positionX < 96 * PX
    /\ camera = [x |-> 0, y |-> 0]
    /\ enemies[1].alive
    /\ enemies[1].y > (EnemySpawns[1][2] * 32 - 28) * PX
    /\ Len(trail) = 20
    /\ trail[19].x > 1000 * PX

\* No key-down has set an intent since the play: a restart intent that is
\* asserted was set from the dev overlay
RestartFromOverlay ==
    /\ inputs.restart
    /\ keyWait.since = -1
    /\ keyWait.latency = -1

\* C36 as stated: after the dev-overlay restart action, with no keyboard
\* event following it, one simulation step resets the player and the steps
\* after it run with restart not asserted: the step that resets the player
\* leaves the restart intent cleared.
C36_OverlayRestartClears ==
    [][ (AboutToStep /\ RestartFromOverlay) => ~inputs'.restart ]_vars


\* The coming step marks the player dead before its orb pass: the collision
\* passes leave the player below the fall line, or on a spike
DiesBeforeOrbs ==
    \/ FellOutOfWorld(ComingMove, createBaselineLevel)
    \/ SpikeHere(ClampToWorld(ComingMove, createBaselineLevel), createBaselineLevel)

\* The alive flags of a list of enemies
AliveFlags(list) == [ n \in 1 .. Len(list) |-> list[n].alive ]

\* The collected flags of a list of orbs
CollectedFlags(list) == [ i \in 1 .. Len(list) |-> list[i].collected ]

\* C37 as stated: dead and won are never both true, and a step that has
\* marked the player dead by the fall line or a spike collects no orb, kills
\* no enemy and does not unlock flight.
C37_NothingAfterDeath ==
    /\ [](~(dead /\ won))
    /\ [][ (StepProcessed /\ DiesBeforeOrbs) =>
             /\ dead' /\ ~won'
             /\ CollectedFlags(orbs') = CollectedFlags(orbs)
             /\ AliveFlags(enemies') = AliveFlags(enemies)
             /\ player'.canFly = player.canFly ]_vars

\* C37: dead and won are never both true and no step sets both; a step that
\* has marked the player dead by the fall line or a spike collects no orb and
\* kills no enemy, but it still runs the flight unlock: it ends with canFly
\* set when canFly was set or no enemy is alive; a step in which an enemy
\* kills the player leaves canFly as it was.
C37_DeadStepStillUnlocks ==
    /\ [](~(dead /\ won))
    /\ [][ (StepProcessed /\ dead') =>
             /\ ~won'
             /\ DiesBeforeOrbs =>
                    /\ CollectedFlags(orbs') = CollectedFlags(orbs)
                    /\ AliveFlags(enemies') = AliveFlags(enemies)
                    /\ player'.canFly = (player.canFly \/ ~AnyAlive(enemies))
             /\ ~DiesBeforeOrbs => player'.canFly = player.canFly ]_vars

\* Every enemy was killed from the overlay and the next step took the player
\* below the fall line: that step marked the player dead and then unlocked
\* flight
C37_Witness ==
    /\ stepsRun = 238
    /\ dead /\ ~won
    /\ FellOutOfWorld(player, createBaselineLevel)
    /\ ~AnyAlive(enemies)
    /\ player.canFly
    /\ flightMsgTimer = FLIGHT_MSG_SECONDS * SECOND - SECOND \div TARGET_FPS


\* C38: at most one frame callback is pending, and none while a callback
\* runs; the requests made so far are the first one plus one per finished
\* live callback; a callback that finds the loop stopped requests nothing;
\* and the steps run never cover more than the elapsed time.
C38_OneCallbackPending ==
    /\ [](/\ Cardinality(rafQueue) <= 1
          /\ pc # 0 => rafQueue = {}
          /\ pc = 0 => nextRafId - FirstRafId = rendersRun + 1
          /\ stepsRun * FRAME_DURATION_MS <= elapsedTotal)
    /\ [][ /\ nextRafId' # nextRafId =>
                 /\ isRunning /\ Statement = "requestAnimationFrame"
                 /\ rafQueue = {} /\ rafQueue' = { nextRafId }
                 /\ nextRafId' = nextRafId + 1
           /\ staleFires' # staleFires =>
                 /\ rafQueue' = {} /\ nextRafId' = nextRafId
                 /\ stepsRun' = stepsRun /\ pc' = 0 ]_vars

\* After a live callback the cleanup ran with that callback's request
\* pending; the request fired, found the loop stopped and requested nothing
C38_Witness ==
    /\ ~isRunning
    /\ staleFires = 1
    /\ rafQueue = {}
    /\ rendersRun = 41
    /\ nextRafId = FirstRafId + 42
    /\ pc = 0


\* The row of tiles right under the enemy's feet when the feet are on a tile
\* boundary, -1 when they are not
RowAtFeet(e) ==
    IF (e.y + e.height) % (TileSizePx * PX) = 0
    THEN (e.y + e.height) \div (TileSizePx * PX)
    ELSE -1

\* The columns of solid tiles in the row right under the enemy's feet that
\* lie under the stretch from x + inset to x + width - inset
SupportCols(e, inset) ==
    { c \in 0 .. LevelCols - 1 :
        /\ e.x + inset < (c + 1) * TileSizePx * PX
        /\ e.x + e.width - inset > c * TileSizePx * PX
        /\ RowAtFeet(e) \in 0 .. LevelRows - 1
        /\ isSolidTile(TileCode(RowAtFeet(e), c)) }

\* The enemy stands on solid tiles: at rest vertically, its feet on the top
\* of a row of tiles, a solid one under its rectangle
Standing(e) ==
    /\ e.velocityY = 0
    /\ SupportCols(e, 0) # {}

\* The enemy has solid tiles under all of its width but for less than
\* `inset` at either end
WellSupported(e, inset) ==
    \A c \in 0 .. LevelCols - 1 :
        ( /\ e.x + inset < (c + 1) * TileSizePx * PX
          /\ e.x + e.width - inset > c * TileSizePx * PX ) => c \in SupportCols(e, inset)

\* C39: every enemy's horizontal speed is 70 px/s in magnitude at all times;
\* a step of a simulated enemy that stands on solid tiles leaves it standing
\* at the same height, with solid tiles under all of its width but for less
\* than 3 px at the leading end.
C39_KeepsPatrolling ==
    /\ [](\A n \in 1 .. Len(enemies) : Abs(enemies[n].velocityX) = 70 * VEL)
    /\ [][ StepProcessed =>
             \A n \in 1 .. Len(enemies) :
                 (Simulated(enemies[n]) /\ Standing(enemies[n])) =>
                     /\ Standing(enemies'[n])
                     /\ enemies'[n].y = enemies[n].y
                     /\ WellSupported(enemies'[n], 3 * PX) ]_vars

\* The third enemy has walked its platform to the left end, turned there and
\* is walking back, still standing on the platform
C39_Witness ==
    /\ stepsRun > 300
    /\ enemies[3].alive
    /\ Standing(enemies[3])
    /\ RowAtFeet(enemies[3]) = 12
    /\ enemies[3].velocityX > 0
    /\ enemies[3].x < 97 * TileSizePx * PX

=============================================================================
